---------------------------- MODULE Spec2Model ----------------------------
(***************************************************************************)
(* Verification model of the littlefs/fatfs/spiffs WebAssembly bindings.   *)
(*                                                                         *)
(* Part I   SPIFFS binding (spiffs_wasm.c) on top of the SPIFFS core.      *)
(*          The core (SPIFFS_mount, SPIFFS_write, the allocator and the    *)
(*          garbage collector) is vendored and is modelled at page level   *)
(*          from the design specification; the binding is modelled from    *)
(*          its C source.                                                  *)
(* Part II  FatFS binding (fatfs_wasm.c) on top of FatFs, and the          *)
(*          TypeScript FatFSClient.  FatFs (ff.c) is vendored and is       *)
(*          modelled as a directory tree with a cluster budget behind     *)
(*          the documented behaviour of its API.                          *)
(*                                                                         *)
(* Storage is kept at page granularity: a page is a record holding the     *)
(* header fields and its payload bytes.  One byte of the model is one      *)
(* byte of payload.                                                        *)
(***************************************************************************)
EXTENDS Integers, Sequences, FiniteSets, TLC

VARIABLES
    spiffs,     \* the globals of the SPIFFS binding, one field per global
    spLast,     \* the last exported SPIFFS call: operation, inputs, result
    spImage,    \* the bytes last copied out by spiffsjs_export_image, with
                \* what the client saw of the volume they were copied from
    spGc,       \* the last garbage collection pass: the volume it started
                \* on and the files before and after it
    spClient,   \* which client drives the SPIFFS binding
    spOps,      \* calls made so far that may change the module
    fat,        \* the globals of the FatFS binding
    fatLast,    \* the last exported FatFS call
    fatImage,   \* the bytes last copied out by fatfsjs_export_image
    fatOps,     \* FatFS calls made so far
    lfs,        \* the globals of the littlefs binding
    lfsLast,    \* the last exported littlefs call
    lfsOps,     \* littlefs calls made so far that may change the module
    hal,        \* the backing store of a block device, byte by byte
    halLast,    \* the last callback the file system made on it
    fat7,       \* the globals of the FatFS binding in its revision with
                \* a sector size parameter
    fat7Last,   \* the last exported call of that revision
    fat7Ops,    \* calls of that revision made so far
    ro,         \* the globals of the read-only FAT reader
    roLast,     \* the last call of the reader
    roImage     \* the image file the page of the reader was given

vars == <<spiffs, spLast, spImage, spGc, spClient, spOps,
          fat, fatLast, fatImage, fatOps, lfs, lfsLast, lfsOps,
          hal, halLast,
          fat7, fat7Last, fat7Ops, ro, roLast, roImage>>
spVars == <<spiffs, spLast, spImage, spGc, spClient, spOps>>
fatVars == <<fat, fatLast, fatImage, fatOps>>
lfsVars == <<lfs, lfsLast, lfsOps>>
halVars == <<hal, halLast>>
fat7Vars == <<fat7, fat7Last, fat7Ops>>
roVars == <<ro, roLast, roImage>>

---------------------------------------------------------------------------
(* Bounds of the model *)

\* calls that may change the module, per run of the application client
MaxApiOps == 4
\* the same for the churn client
MaxChurnOps == 6
\* calls of the lister client and objects of the fullest volume it opens
MaxListerOps == 2
MaxCrowd == 106
\* span entries held by one object index page
IxCap == 2

(* Byte strings written by the clients *)
AppPayloads == { <<>>, <<1, 2, 3>> }
ChurnPayloads == { <<1>>, <<2, 1, 2, 1, 2, 1, 2>> }
SpNames == { "a", "b" }

---------------------------------------------------------------------------
(* Constants of spiffs_config.h and spiffs.h *)

SPIFFS_GC_MAX_RUNS == 10
SPIFFS_GC_HEUR_W_DELET == 5
SPIFFS_GC_HEUR_W_USED == -1
SPIFFS_GC_HEUR_W_ERASE_AGE == 50
SPIFFSJS_MAX_READ_CHUNK == 4096
\* the list buffer of the TypeScript clients
INITIAL_LIST_BUFFER == 4096

SPIFFS_OK == 0
SPIFFS_ERR_NOT_MOUNTED == -10000
SPIFFS_ERR_FULL == -10001
SPIFFS_ERR_NOT_FOUND == -10002
SPIFFS_ERR_NOT_CONFIGURED == -10013
SPIFFS_ERR_NOT_A_FS == -10025
SPIFFS_ERR_ERASE_FAIL == -10027
SPIFFS_ERR_NOT_A_FILE == -10031
SPIFFS_ERR_INTERNAL == -10050

SPIFFSJS_MIN(a, b) == IF a < b THEN a ELSE b

\* characters snprintf writes for an unsigned decimal
RECURSIVE DecimalDigits(_)
DecimalDigits(n) == IF n < 10 THEN 1 ELSE 1 + DecimalDigits(n \div 10)

NULL == "NULL"
NoMagic == <<>>

---------------------------------------------------------------------------
(* SPIFFS core, page level *)

\* an erased page: every bit is one
FreePage ==
    [st |-> "free", ix |-> FALSE, id |-> 0, span |-> 0,
     name |-> "", size |-> 0, map |-> <<>>, data |-> <<>>]

\* the magic of block b (1-based) for a geometry: page size and the number
\* of blocks from b to the end of the volume
Magic(ps, bc, b) == <<ps, bc - (b - 1)>>

\* pages of a block available to objects; page 0 is the lookup page
PagesPerBlock(ps, bs) == (bs \div ps) - 1

ErasedBlock(ppb) ==
    [magic |-> NoMagic, age |-> 0, pages |-> [p \in 1..ppb |-> FreePage]]

\* storage after memset(0xFF)
BlankStorage(ps, bs, bc) ==
    [ps |-> ps, bs |-> bs,
     blocks |-> [b \in 1..bc |-> ErasedBlock(PagesPerBlock(ps, bs))]]

NBlocks(blocks) == Len(blocks)
Ppb(blocks) == Len(blocks[1].pages)
Addrs(blocks) == { <<b, p>> : b \in 1..NBlocks(blocks), p \in 1..Ppb(blocks) }
PageAt(blocks, a) == blocks[a[1]].pages[a[2]]
SetPage(blocks, a, pg) ==
    [blocks EXCEPT ![a[1]].pages[a[2]] = pg]

CountSt(blocks, b, s) ==
    Cardinality({ p \in 1..Ppb(blocks) : blocks[b].pages[p].st = s })

LiveAddrs(blocks) == { a \in Addrs(blocks) : PageAt(blocks, a).st = "used" }

MinOf(S) == CHOOSE x \in S : \A y \in S : x <= y
MaxOf(S) == CHOOSE x \in S : \A y \in S : x >= y

\* blocks in allocation order: the active block first, then the following
\* blocks in index order, wrapping around the volume
ScanOrder(n, active) == [i \in 1..n |-> ((active - 1 + (i - 1)) % n) + 1]

\* allocatePage without garbage collection; excl is the block under
\* reclamation
AllocNoGc(v, excl) ==
    LET n == NBlocks(v.blocks)
        ord == ScanOrder(n, v.active)
        ok == { i \in 1..n : ord[i] \notin excl
                             /\ CountSt(v.blocks, ord[i], "free") > 0 }
    IN IF ok = {} THEN [ok |-> FALSE, addr |-> <<0, 0>>, v |-> v]
       ELSE LET b == ord[MinOf(ok)]
                p == MinOf({ q \in 1..Ppb(v.blocks) :
                                v.blocks[b].pages[q].st = "free" })
            IN [ok |-> TRUE, addr |-> <<b, p>>,
                v |-> [v EXCEPT !.active = b]]

\* block erase: all pages free, magic rewritten, erase age = generation
EraseBlock(v, b) ==
    [v EXCEPT !.blocks[b] =
                 [magic |-> Magic(v.ps, NBlocks(v.blocks), b),
                  age |-> v.gen,
                  pages |-> [p \in 1..Ppb(v.blocks) |-> FreePage]],
              !.gen = v.gen + 1]

GcScore(v, b) ==
    SPIFFS_GC_HEUR_W_DELET * CountSt(v.blocks, b, "deleted")
    + SPIFFS_GC_HEUR_W_USED * CountSt(v.blocks, b, "used")
    + SPIFFS_GC_HEUR_W_ERASE_AGE * (v.gen - v.blocks[b].age)

\* the index page entry that refers to data page a is pointed at page n
Repoint(blocks, a, n) ==
    LET pg == PageAt(blocks, a)
        owners == { x \in LiveAddrs(blocks) :
                       /\ PageAt(blocks, x).ix
                       /\ PageAt(blocks, x).id = pg.id
                       /\ \E k \in 1..Len(PageAt(blocks, x).map) :
                              PageAt(blocks, x).map[k] = a }
    IN IF pg.ix \/ owners = {} THEN blocks
       ELSE LET x == CHOOSE o \in owners : TRUE
                m == PageAt(blocks, x).map
            IN SetPage(blocks, x,
                 [PageAt(blocks, x) EXCEPT
                    !.map = [k \in 1..Len(m) |->
                               IF m[k] = a THEN n ELSE m[k]]])

\* a relocation that leaves the index entry pointing at the old page
Relocate_NoRepoint(v, a) ==
    LET Move(r) ==
            IF ~r.ok THEN [ok |-> FALSE, v |-> v]
            ELSE [ok |-> TRUE,
                  v |-> [r.v EXCEPT !.blocks =
                           SetPage(SetPage(r.v.blocks, r.addr,
                                           PageAt(v.blocks, a)),
                                   a, [PageAt(v.blocks, a) EXCEPT
                                         !.st = "deleted"])]]
    IN Move(AllocNoGc(v, {a[1]}))

\* relocation of one live page out of block b: copy, repoint, retire
Relocate(v, a) ==
    LET Retire(pointed) ==
            SetPage(pointed, a, [PageAt(pointed, a) EXCEPT !.st = "deleted"])
        Move(r) ==
            IF ~r.ok THEN [ok |-> FALSE, v |-> v]
            ELSE [ok |-> TRUE,
                  v |-> [r.v EXCEPT !.blocks =
                           Retire(Repoint(SetPage(r.v.blocks, r.addr,
                                                  PageAt(v.blocks, a)),
                                          a, r.addr))]]
    IN Move(AllocNoGc(v, {a[1]}))

\* a relocation that retires the old page before the copy is written
RelocateStages_RetireFirst(v, a) ==
    LET Stages(r) ==
            IF ~r.ok THEN <<v.blocks>>
            ELSE LET retired == SetPage(r.v.blocks, a,
                                  [PageAt(v.blocks, a) EXCEPT
                                     !.st = "deleted"])
                     copied == SetPage(retired, r.addr, PageAt(v.blocks, a))
                 IN <<retired, copied, Repoint(copied, a, r.addr)>>
    IN Stages(AllocNoGc(v, {a[1]}))

\* the storage after each write of the relocation of page a: the copy,
\* the index entry, the old page marked deleted; a relocation that finds
\* no free page writes nothing
RelocateStages(v, a) ==
    LET Stages(r) ==
            IF ~r.ok THEN <<v.blocks>>
            ELSE LET copied == SetPage(r.v.blocks, r.addr, PageAt(v.blocks, a))
                     pointed == Repoint(copied, a, r.addr)
                 IN <<copied, pointed,
                      SetPage(pointed, a,
                              [PageAt(pointed, a) EXCEPT !.st = "deleted"])>>
    IN Stages(AllocNoGc(v, {a[1]}))

\* the storage after each write of the reclamation of block b, up to the
\* relocation that failed or the last one
RECURSIVE RelocateAllStages(_, _)
RelocateAllStages(v, b) ==
    LET live == { p \in 1..Ppb(v.blocks) : v.blocks[b].pages[p].st = "used" }
        Rest(r) == IF r.ok THEN RelocateAllStages(r.v, b) ELSE <<>>
    IN IF live = {} THEN <<>>
       ELSE RelocateStages(v, <<b, MinOf(live)>>)
               \o Rest(Relocate(v, <<b, MinOf(live)>>))

RECURSIVE RelocateAll(_, _)
RelocateAll(v, b) ==
    LET live == { p \in 1..Ppb(v.blocks) : v.blocks[b].pages[p].st = "used" }
        Next(r) ==
            IF r.ok THEN RelocateAll(r.v, b) ELSE [ok |-> FALSE, v |-> r.v]
    IN IF live = {} THEN [ok |-> TRUE, v |-> v]
       ELSE Next(Relocate(v, <<b, MinOf(live)>>))

\* reclamation of one block: relocate its live pages, then erase it
Reclaim(v, b) ==
    LET Erase(r) == IF r.ok THEN EraseBlock(r.v, b) ELSE r.v
    IN Erase(RelocateAll(v, b))

\* the storage after each write of one garbage collection pass
RECURSIVE GcPassStages(_, _, _)
GcPassStages(v, runs, tried) ==
    LET cand == { b \in 1..NBlocks(v.blocks) :
                     /\ b # v.active
                     /\ b \notin tried
                     /\ CountSt(v.blocks, b, "deleted") > 0 }
        Run(b, after) ==
            RelocateAllStages(v, b) \o <<after.blocks>>
                \o GcPassStages(after, runs - 1, tried \cup {b})
        Pick(best) ==
            LET b == MinOf({ c \in cand : GcScore(v, c) = best })
            IN Run(b, Reclaim(v, b))
    IN IF runs = 0 \/ cand = {} THEN <<>>
       ELSE Pick(MaxOf({ GcScore(v, b) : b \in cand }))

\* one garbage collection pass: at most SPIFFS_GC_MAX_RUNS blocks, highest
\* score first; the active block is never a candidate
RECURSIVE GcPass(_, _, _)
GcPass(v, runs, tried) ==
    LET cand == { b \in 1..NBlocks(v.blocks) :
                     /\ b # v.active
                     /\ b \notin tried
                     /\ CountSt(v.blocks, b, "deleted") > 0 }
        Run(b) == GcPass(Reclaim(v, b), runs - 1, tried \cup {b})
        Pick(best) == Run(MinOf({ c \in cand : GcScore(v, c) = best }))
    IN IF runs = 0 \/ cand = {} THEN v
       ELSE Pick(MaxOf({ GcScore(v, b) : b \in cand }))

spiffs_gc(v) == GcPass(v, SPIFFS_GC_MAX_RUNS, {})

\* an allocator that gives up without collecting
AllocPage_NoGc(v) ==
    LET Done(r) == [ok |-> r.ok, addr |-> r.addr, v |-> r.v, gc |-> 0,
                    pre |-> v, post |-> v.blocks]
    IN Done(AllocNoGc(v, {}))

\* allocatePage: on failure one garbage collection pass, then one retry.
\* gc counts the passes this allocation triggered.
AllocPage(v) ==
    LET Done(r, gc, post) ==
            [ok |-> r.ok, addr |-> r.addr, v |-> r.v, gc |-> gc,
             pre |-> v, post |-> post]
        Retry(g) == Done(AllocNoGc(g, {}), 1, g.blocks)
        First(r) == IF r.ok THEN Done(r, 0, v.blocks)
                    ELSE Retry(spiffs_gc(v))
    IN First(AllocNoGc(v, {}))

---------------------------------------------------------------------------
(* SPIFFS core, objects *)

\* a context threads the volume and the garbage collection statistics of
\* the running call: gcMax is the largest number of passes one allocation
\* triggered, gcN the number of passes, pre the volume before the last
\* pass and post the storage after it
Ctx(v) ==
    [v |-> v, gcMax |-> 0, gcN |-> 0, pre |-> v, post |-> v.blocks]

Alloc(c) ==
    LET Done(r) ==
            [ok |-> r.ok, addr |-> r.addr,
             c |-> [v |-> r.v,
                    gcMax |-> IF r.gc > c.gcMax THEN r.gc ELSE c.gcMax,
                    gcN |-> c.gcN + r.gc,
                    pre |-> IF r.gc > 0 THEN r.pre ELSE c.pre,
                    post |-> IF r.gc > 0 THEN r.post ELSE c.post]]
    IN Done(AllocPage(c.v))

\* live index pages of object id with index span k
IxPages(blocks, id, k) ==
    { a \in LiveAddrs(blocks) :
         PageAt(blocks, a).ix /\ PageAt(blocks, a).id = id
         /\ PageAt(blocks, a).span = k }

\* name lookup: linear scan of the live index pages zero
Lookup(blocks, name) ==
    { a \in LiveAddrs(blocks) :
         PageAt(blocks, a).ix /\ PageAt(blocks, a).span = 0
         /\ PageAt(blocks, a).name = name }

LiveIds(blocks) == { PageAt(blocks, a).id : a \in LiveAddrs(blocks) }

FreeId(blocks) ==
    MinOf({ i \in 1..(Cardinality(LiveIds(blocks)) + 1) :
               i \notin LiveIds(blocks) })

ObjSize(blocks, id) ==
    LET s == IxPages(blocks, id, 0)
    IN IF s = {} THEN 0 ELSE PageAt(blocks, CHOOSE a \in s : TRUE).size

Spans(ps, n) == (n + ps - 1) \div ps

\* resolve(objectId, spanIndex): the address of the data page, or <<0, 0>>
Resolve(blocks, id, span) ==
    LET s == IxPages(blocks, id, span \div IxCap)
        k == (span % IxCap) + 1
    IN IF s = {} THEN <<0, 0>>
       ELSE LET m == PageAt(blocks, CHOOSE a \in s : TRUE).map
            IN IF k > Len(m) THEN <<0, 0>> ELSE m[k]

\* truncate object id to n bytes: pages past the end are marked deleted
TruncateTo(ps, blocks, id, n) ==
    LET ns == Spans(ps, n)
        Keep(k) == LET r == ns - k * IxCap
                   IN IF r < 0 THEN 0 ELSE IF r > IxCap THEN IxCap ELSE r
        Cut(pg) ==
            IF pg.st # "used" \/ pg.id # id THEN pg
            ELSE IF pg.ix
                 THEN IF pg.span > 0 /\ Keep(pg.span) = 0
                      THEN [pg EXCEPT !.st = "deleted"]
                      ELSE [pg EXCEPT
                              !.map = SubSeq(pg.map, 1,
                                        SPIFFSJS_MIN(Keep(pg.span),
                                                     Len(pg.map))),
                              !.size = IF pg.span = 0 THEN n ELSE 0]
                 ELSE IF pg.span >= ns THEN [pg EXCEPT !.st = "deleted"]
                      ELSE IF pg.span = ns - 1
                           THEN [pg EXCEPT
                                   !.data = SubSeq(pg.data, 1,
                                      SPIFFSJS_MIN(n - pg.span * ps,
                                                   Len(pg.data)))]
                           ELSE pg
    IN [b \in 1..NBlocks(blocks) |->
          [blocks[b] EXCEPT
             !.pages = [p \in 1..Ppb(blocks) |-> Cut(blocks[b].pages[p])]]]

\* createObject: a new index page zero carrying the name
CreateObject(c, name) ==
    LET Header(r, id) ==
            [res |-> SPIFFS_OK, id |-> id,
             c |-> [r.c EXCEPT !.v.blocks =
                      SetPage(@, r.addr,
                        [FreePage EXCEPT !.st = "used", !.ix = TRUE,
                                         !.id = id, !.name = name])]]
        Done(r) ==
            IF ~r.ok THEN [res |-> SPIFFS_ERR_FULL, id |-> 0, c |-> r.c]
            ELSE Header(r, FreeId(r.c.v.blocks))
    IN Done(Alloc(c))

\* SPIFFS_open(path, flags): an existing object is truncated when trunc is
\* set, a missing one is created when creat is set
SPIFFS_open(c, name, creat, trunc) ==
    LET s == Lookup(c.v.blocks, name)
    IN IF s # {}
       THEN LET id == PageAt(c.v.blocks, CHOOSE a \in s : TRUE).id
            IN [res |-> SPIFFS_OK, id |-> id,
                c |-> IF trunc
                      THEN [c EXCEPT !.v.blocks =
                              TruncateTo(c.v.ps, @, id, 0)]
                      ELSE c]
       ELSE IF creat THEN CreateObject(c, name)
            ELSE [res |-> SPIFFS_ERR_NOT_FOUND, id |-> 0, c |-> c]

\* the spans of one write, appended at offset size
RECURSIVE AppendSpans(_, _, _, _)
AppendSpans(c, id, size, rest) ==
    LET ps == c.v.ps
        span == size \div ps
    IN IF rest = <<>> THEN [ok |-> TRUE, c |-> c, size |-> size]
       ELSE IF size % ps # 0
       THEN \* the last page has room: program the erased tail in place
            LET a == Resolve(c.v.blocks, id, span)
                k == SPIFFSJS_MIN(ps - (size % ps), Len(rest))
                pg == PageAt(c.v.blocks, a)
            IN AppendSpans(
                 [c EXCEPT !.v.blocks =
                    SetPage(@, a, [pg EXCEPT
                                     !.data = pg.data \o SubSeq(rest, 1, k)])],
                 id, size + k, SubSeq(rest, k + 1, Len(rest)))
       ELSE LET k == SPIFFSJS_MIN(ps, Len(rest))
                Link(written, x, a) ==
                    SetPage(written, x,
                      [PageAt(written, x) EXCEPT !.map = Append(@, a)])
                Linked(written, a) ==
                    Link(written,
                         CHOOSE o \in IxPages(written, id, span \div IxCap)
                            : TRUE,
                         a)
                \* the data page, then its entry in the index page
                Put(r2) ==
                    IF ~r2.ok THEN [ok |-> FALSE, c |-> r2.c, size |-> size]
                    ELSE AppendSpans(
                           [r2.c EXCEPT !.v.blocks =
                              Linked(SetPage(@, r2.addr,
                                       [FreePage EXCEPT
                                          !.st = "used", !.id = id,
                                          !.span = span,
                                          !.data = SubSeq(rest, 1, k)]),
                                     r2.addr)],
                           id, size + k, SubSeq(rest, k + 1, Len(rest)))
                \* a new index page when the span opens one
                Index(r1) ==
                    IF ~r1.ok THEN [ok |-> FALSE, c |-> r1.c, size |-> size]
                    ELSE Put(Alloc(
                           [r1.c EXCEPT !.v.blocks =
                              SetPage(@, r1.addr,
                                [FreePage EXCEPT
                                   !.st = "used", !.ix = TRUE, !.id = id,
                                   !.span = span \div IxCap])]))
            IN IF span > 0 /\ span % IxCap = 0 THEN Index(Alloc(c))
               ELSE Put(Alloc(c))

SetSize(blocks, id, n) ==
    LET x == CHOOSE o \in IxPages(blocks, id, 0) : TRUE
    IN SetPage(blocks, x, [PageAt(blocks, x) EXCEPT !.size = n])

\* SPIFFS_write at the end of the object: the number of bytes written, or
\* SPIFFS_ERR_FULL with the object left at its size before the call
SPIFFS_write(c, id, bytes) ==
    LET Done(r, size) ==
            IF r.ok
            THEN [res |-> Len(bytes),
                  c |-> [r.c EXCEPT !.v.blocks = SetSize(@, id, r.size)]]
            ELSE [res |-> SPIFFS_ERR_FULL,
                  c |-> [r.c EXCEPT !.v.blocks =
                           TruncateTo(c.v.ps, @, id, size)]]
        From(size) == Done(AppendSpans(c, id, size, bytes), size)
    IN From(ObjSize(c.v.blocks, id))

\* the bytes of object id, span by span through the index
RECURSIVE ReadSpans(_, _, _, _)
ReadSpans(blocks, id, span, n) ==
    IF span >= n THEN <<>>
    ELSE LET a == Resolve(blocks, id, span)
         IN (IF a = <<0, 0>> \/ PageAt(blocks, a).st # "used"
                \/ PageAt(blocks, a).id # id \/ PageAt(blocks, a).ix
                \/ PageAt(blocks, a).span # span
             THEN <<>> ELSE PageAt(blocks, a).data)
            \o ReadSpans(blocks, id, span + 1, n)

ObjBytes(ps, blocks, id) ==
    ReadSpans(blocks, id, 0, Spans(ps, ObjSize(blocks, id)))

\* SPIFFS_read(fd, dst, len) at offset off: the bytes available, at most len
SPIFFS_read(ps, blocks, id, off, len) ==
    LET all == ObjBytes(ps, blocks, id)
        size == ObjSize(blocks, id)
        n == SPIFFSJS_MIN(len, size - off)
    IN SubSeq(all, off + 1, SPIFFSJS_MIN(off + n, Len(all)))

\* SPIFFS_remove(path): every page of the object is marked deleted
SPIFFS_remove(blocks, name) ==
    LET s == Lookup(blocks, name)
    IN IF s = {} THEN [res |-> SPIFFS_ERR_NOT_FOUND, blocks |-> blocks]
       ELSE LET id == PageAt(blocks, CHOOSE a \in s : TRUE).id
            IN [res |-> SPIFFS_OK,
                blocks |->
                  [b \in 1..NBlocks(blocks) |->
                     [blocks[b] EXCEPT
                        !.pages = [p \in 1..Ppb(blocks) |->
                           IF @[p].st = "used" /\ @[p].id = id
                           THEN [@[p] EXCEPT !.st = "deleted"]
                           ELSE @[p]]]]]

\* SPIFFS_stat(path)
SPIFFS_stat(blocks, name) ==
    LET s == Lookup(blocks, name)
    IN IF s = {} THEN [res |-> SPIFFS_ERR_NOT_FOUND, size |-> 0]
       ELSE [res |-> SPIFFS_OK,
             size |-> PageAt(blocks, CHOOSE a \in s : TRUE).size]

\* SPIFFS_opendir/SPIFFS_readdir: the live objects in page order, block
\* after block
RECURSIVE DirOfBlock(_, _)
DirOfBlock(pages, p) ==
    IF p > Len(pages) THEN <<>>
    ELSE (IF pages[p].st = "used" /\ pages[p].ix /\ pages[p].span = 0
          THEN << [name |-> pages[p].name, size |-> pages[p].size] >>
          ELSE <<>>)
         \o DirOfBlock(pages, p + 1)

RECURSIVE DirFrom(_, _)
DirFrom(blocks, b) ==
    IF b > NBlocks(blocks) THEN <<>>
    ELSE DirOfBlock(blocks[b].pages, 1) \o DirFrom(blocks, b + 1)

SPIFFS_readdir(blocks) == DirFrom(blocks, 1)

\* SPIFFS_info: total and used bytes
SPIFFS_info(ps, blocks) ==
    [total |-> NBlocks(blocks) * Ppb(blocks) * ps,
     used |-> Cardinality(LiveAddrs(blocks)) * ps]

\* SPIFFS_format: every block erased and its magic written
SPIFFS_format(st, bc) ==
    [st EXCEPT !.blocks =
       [b \in 1..bc |->
          [magic |-> Magic(st.ps, bc, b), age |-> 0,
           pages |-> [p \in 1..PagesPerBlock(st.ps, st.bs) |-> FreePage]]]]

\* SPIFFS_mount: the scan accepts the storage only if every block carries
\* the magic of the configured geometry
SPIFFS_mount(st, ps, bs, bc) ==
    IF st.ps = ps /\ st.bs = bs /\ Len(st.blocks) = bc
       /\ \A b \in 1..bc : st.blocks[b].magic = Magic(ps, bc, b)
    THEN [res |-> SPIFFS_OK,
          fs |-> [mounted |-> TRUE,
                  active |->
                    LET f == { b \in 1..bc :
                                 CountSt(st.blocks, b, "free") > 0 }
                    IN IF f = {} THEN 1 ELSE MinOf(f),
                  gen |-> 1 + MaxOf({ st.blocks[b].age : b \in 1..bc })]]
    ELSE [res |-> SPIFFS_ERR_NOT_A_FS,
          fs |-> [mounted |-> FALSE, active |-> 1, gen |-> 1]]

---------------------------------------------------------------------------
(* SPIFFS binding: spiffs_wasm.c *)

ZeroFs == [mounted |-> FALSE, active |-> 1, gen |-> 1]

\* g_storage when no buffer is allocated
NullStorage == [ps |-> 0, bs |-> 0, blocks |-> <<>>]

\* the globals after spiffsjs_release, which is also their initial value
SpReleased ==
    [g_is_mounted |-> FALSE, g_disk_ready |-> FALSE, g_storage |-> NullStorage,
     g_total_bytes |-> 0, g_page_size |-> 0, g_block_size |-> 0,
     g_block_count |-> 0, g_fs |-> ZeroFs]

spiffsjs_result(err) == IF err = SPIFFS_OK THEN 0 ELSE err

spiffsjs_release(m) == SpReleased

\* the geometries of the model keep every product far below UINT32_MAX, so
\* the 32 and 64 bit products of the source are the plain products
spiffsjs_configure(m, page_size, block_size, block_count) ==
    IF page_size = 0 \/ block_size = 0 \/ block_count = 0
    THEN [err |-> SPIFFS_ERR_NOT_CONFIGURED, m |-> m]
    ELSE IF block_size < page_size \/ (block_size % page_size) # 0
    THEN [err |-> SPIFFS_ERR_INTERNAL, m |-> m]
    ELSE IF block_size < page_size * 8
    THEN [err |-> SPIFFS_ERR_INTERNAL, m |-> m]
    ELSE IF block_size * block_count = 0
    THEN [err |-> SPIFFS_ERR_INTERNAL, m |-> m]
    ELSE [err |-> 0,
          m |-> [spiffsjs_release(m) EXCEPT
                   !.g_storage =
                       BlankStorage(page_size, block_size, block_count),
                   !.g_total_bytes = block_size * block_count,
                   !.g_page_size = page_size,
                   !.g_block_size = block_size,
                   !.g_block_count = block_count,
                   !.g_disk_ready = TRUE]]

CoreMount(m) ==
    SPIFFS_mount(m.g_storage, m.g_page_size, m.g_block_size, m.g_block_count)

\* calls: the SPIFFS calls that may fail it made, each with its result;
\* SPIFFS_format of a configured, unmounted file system returns SPIFFS_OK
spiffsjs_mount(m, allow_format) ==
    IF ~m.g_disk_ready
    THEN [err |-> SPIFFS_ERR_NOT_CONFIGURED, m |-> m, calls |-> <<>>]
    ELSE LET r1 == CoreMount(m)
         IN IF r1.res # SPIFFS_OK /\ allow_format
            THEN LET fm == [m EXCEPT
                              !.g_storage =
                                 SPIFFS_format(@, m.g_block_count)]
                     r2 == CoreMount(fm)
                 IN [err |-> spiffsjs_result(r2.res),
                     m |-> [fm EXCEPT !.g_fs = r2.fs,
                                      !.g_is_mounted = (r2.res = SPIFFS_OK)],
                     calls |-> <<<<"SPIFFS_mount", r1.res>>,
                                 <<"SPIFFS_format", SPIFFS_OK>>,
                                 <<"SPIFFS_mount", r2.res>>>>]
            ELSE [err |-> spiffsjs_result(r1.res),
                  m |-> [m EXCEPT !.g_fs = r1.fs,
                                  !.g_is_mounted = (r1.res = SPIFFS_OK)],
                  calls |-> <<<<"SPIFFS_mount", r1.res>>>>]

\* a mount check that reports the module as not configured
spiffsjs_ensure_mounted_not_configured(m) ==
    IF ~m.g_is_mounted THEN SPIFFS_ERR_NOT_CONFIGURED ELSE 0

spiffsjs_ensure_mounted(m) ==
    IF ~m.g_is_mounted THEN SPIFFS_ERR_NOT_MOUNTED ELSE 0

\* an init that formats the fresh storage without trying to mount it
spiffsjs_init_formats_first(m, page_size, block_size, block_count) ==
    LET c == spiffsjs_configure(m, page_size, block_size, block_count)
    IN IF c.err # 0 THEN [err |-> c.err, m |-> c.m, calls |-> <<>>]
       ELSE LET r == spiffsjs_mount(
                         [c.m EXCEPT !.g_storage =
                              SPIFFS_format(@, c.m.g_block_count)], FALSE)
            IN [err |-> r.err,
                m |-> IF r.err # 0 THEN spiffsjs_release(r.m) ELSE r.m,
                calls |-> <<<<"SPIFFS_format", SPIFFS_OK>>>> \o r.calls]

spiffsjs_init(m, page_size, block_size, block_count) ==
    LET c == spiffsjs_configure(m, page_size, block_size, block_count)
    IN IF c.err # 0 THEN [err |-> c.err, m |-> c.m, calls |-> <<>>]
       ELSE LET r == spiffsjs_mount(c.m, TRUE)
            IN IF r.err # 0
               THEN [err |-> r.err, m |-> spiffsjs_release(r.m),
                     calls |-> r.calls]
               ELSE r

\* an image pointer with its length; NullImage is the null pointer
NullImage == [len |-> 0, bytes |-> NullStorage]

\* an import that mounts a fresh volume and never copies the image
spiffsjs_init_from_image_fresh(m, page_size, block_size, block_count, image) ==
    spiffsjs_init(m, page_size, block_size, block_count)

\* an import that keeps the storage it configured when the mount fails
spiffsjs_init_from_image_keeps(m, page_size, block_size, block_count, image) ==
    LET c == spiffsjs_configure(m, page_size, block_size, block_count)
    IN IF c.err # 0 THEN c
       ELSE IF image = NullImage \/ image.len # c.m.g_total_bytes
       THEN [err |-> SPIFFS_ERR_NOT_CONFIGURED, m |-> spiffsjs_release(c.m)]
       ELSE LET r == spiffsjs_mount([c.m EXCEPT !.g_storage = image.bytes],
                                    FALSE)
            IN [err |-> r.err, m |-> r.m]

spiffsjs_init_from_image(m, page_size, block_size, block_count, image) ==
    LET c == spiffsjs_configure(m, page_size, block_size, block_count)
    IN IF c.err # 0 THEN c
       ELSE IF image = NullImage \/ image.len # c.m.g_total_bytes
       THEN [err |-> SPIFFS_ERR_NOT_CONFIGURED, m |-> spiffsjs_release(c.m)]
       ELSE LET r == spiffsjs_mount([c.m EXCEPT !.g_storage = image.bytes],
                                    FALSE)
            IN IF r.err # 0
               THEN [err |-> r.err, m |-> spiffsjs_release(r.m)]
               ELSE r

\* format_res is what SPIFFS_format returns: SPIFFS_OK with every block
\* erased, or the error of a block erase that failed, here the first
spiffsjs_format(m, format_res) ==
    IF spiffsjs_ensure_mounted(m) # 0
    THEN [err |-> spiffsjs_ensure_mounted(m), m |-> m]
    ELSE IF format_res # SPIFFS_OK
    THEN [err |-> format_res, m |-> [m EXCEPT !.g_fs.mounted = FALSE]]
    ELSE LET un == [m EXCEPT !.g_fs.mounted = FALSE]
             fm == [un EXCEPT !.g_storage = SPIFFS_format(@, m.g_block_count)]
             wiped == [fm EXCEPT
                         !.g_storage = BlankStorage(m.g_page_size,
                                          m.g_block_size, m.g_block_count)]
             r == spiffsjs_mount(wiped, FALSE)
         IN IF r.err # 0
            THEN [err |-> r.err, m |-> spiffsjs_release(r.m)]
            ELSE r

spiffsjs_file_size(m, path) ==
    IF spiffsjs_ensure_mounted(m) # 0 THEN spiffsjs_ensure_mounted(m)
    ELSE IF path = NULL THEN SPIFFS_ERR_NOT_CONFIGURED
    ELSE LET info == SPIFFS_stat(m.g_storage.blocks, path)
         IN IF info.res # SPIFFS_OK THEN info.res ELSE info.size

\* a byte of the caller's buffer that no call has written
Garbage == -1

\* the read loop: remaining bytes are fetched in chunks into dest
RECURSIVE SpReadLoop(_, _, _, _, _)
SpReadLoop(m, id, size, remaining, dest) ==
    IF remaining = 0 THEN dest
    ELSE LET chunk == SPIFFSJS_MIN(SPIFFSJS_MAX_READ_CHUNK, remaining)
             got == SPIFFS_read(m.g_page_size, m.g_storage.blocks, id,
                                size - remaining, chunk)
             off == size - remaining
         IN IF Len(got) = 0 THEN dest
            ELSE SpReadLoop(m, id, size, remaining - Len(got),
                   [i \in 1..Len(dest) |->
                      IF i > off /\ i <= off + Len(got)
                      THEN got[i - off] ELSE dest[i]])

\* returns the result code and the caller's buffer after the call
spiffsjs_read_file(m, path, buffer_ptr, buffer_len) ==
    LET buf == [i \in 1..buffer_len |-> Garbage]
    IN IF spiffsjs_ensure_mounted(m) # 0
       THEN [res |-> spiffsjs_ensure_mounted(m), buf |-> buf]
       ELSE IF path = NULL \/ buffer_ptr = 0 \/ buffer_len = 0
       THEN [res |-> SPIFFS_ERR_NOT_CONFIGURED, buf |-> buf]
       ELSE LET info == SPIFFS_stat(m.g_storage.blocks, path)
            IN IF info.res # SPIFFS_OK THEN [res |-> info.res, buf |-> buf]
               ELSE IF info.size > buffer_len
               THEN [res |-> SPIFFS_ERR_INTERNAL, buf |-> buf]
               ELSE LET id == PageAt(m.g_storage.blocks,
                                CHOOSE a \in Lookup(m.g_storage.blocks, path)
                                   : TRUE).id
                    IN [res |-> info.size,
                        buf |-> SpReadLoop(m, id, info.size, info.size, buf)]

VolOf(m) ==
    [ps |-> m.g_page_size, blocks |-> m.g_storage.blocks,
     active |-> m.g_fs.active, gen |-> m.g_fs.gen]

WithVol(m, v) ==
    [m EXCEPT !.g_storage.blocks = v.blocks, !.g_fs.active = v.active,
              !.g_fs.gen = v.gen]

\* the write loop: data is handed to SPIFFS_write in chunks
RECURSIVE SpWriteLoop(_, _, _, _)
SpWriteLoop(c, id, data, written) ==
    IF written >= Len(data) THEN [res |-> 0, c |-> c]
    ELSE LET chunk == SPIFFSJS_MIN(SPIFFSJS_MAX_READ_CHUNK,
                                   Len(data) - written)
             Next(r) == IF r.res < 0 THEN [res |-> r.res, c |-> r.c]
                        ELSE SpWriteLoop(r.c, id, data, written + r.res)
         IN Next(SPIFFS_write(c, id,
                              SubSeq(data, written + 1, written + chunk)))

\* a write that opens without SPIFFS_TRUNC
SpWriteFlags_NoTrunc == [creat |-> TRUE, trunc |-> FALSE]

\* the open flags of spiffsjs_write_file: SPIFFS_CREAT | SPIFFS_TRUNC
SpWriteFlags == [creat |-> TRUE, trunc |-> TRUE]

\* data is a pointer (0 when null) with the bytes behind it; returns the
\* code, the globals and the context of the call
spiffsjs_write_file(m, path, data, length) ==
    IF spiffsjs_ensure_mounted(m) # 0
    THEN [res |-> spiffsjs_ensure_mounted(m), m |-> m, c |-> Ctx(VolOf(m))]
    ELSE IF path = NULL \/ (length > 0 /\ data.ptr = 0)
    THEN [res |-> SPIFFS_ERR_NOT_CONFIGURED, m |-> m, c |-> Ctx(VolOf(m))]
    ELSE LET Close(w) == [res |-> w.res, m |-> WithVol(m, w.c.v), c |-> w.c]
             Write(file) ==
                 IF file.res < 0
                 THEN [res |-> file.res, m |-> WithVol(m, file.c.v),
                       c |-> file.c]
                 ELSE Close(SpWriteLoop(file.c, file.id,
                                        SubSeq(data.bytes, 1, length), 0))
         IN Write(SPIFFS_open(Ctx(VolOf(m)), path, SpWriteFlags.creat,
                              SpWriteFlags.trunc))

\* a remove that reports the result and leaves the storage as it was
spiffsjs_remove_file_noop(m, path) ==
    IF spiffsjs_ensure_mounted(m) # 0
    THEN [res |-> spiffsjs_ensure_mounted(m), m |-> m]
    ELSE IF path = NULL THEN [res |-> SPIFFS_ERR_NOT_CONFIGURED, m |-> m]
    ELSE [res |-> SPIFFS_remove(m.g_storage.blocks, path).res, m |-> m]

spiffsjs_remove_file(m, path) ==
    IF spiffsjs_ensure_mounted(m) # 0
    THEN [res |-> spiffsjs_ensure_mounted(m), m |-> m]
    ELSE IF path = NULL THEN [res |-> SPIFFS_ERR_NOT_CONFIGURED, m |-> m]
    ELSE LET r == SPIFFS_remove(m.g_storage.blocks, path)
         IN [res |-> r.res, m |-> [m EXCEPT !.g_storage.blocks = r.blocks]]

\* the entries the listing emits; the text buffer is large enough
\* one line "name \t file \t size \n" written at the cursor; every object
\* of the volume is a file
spiffsjs_emit_entry(entry, cursor, end) ==
    LET needed == Len(entry.name) + 1 + Len("file") + 1
                  + DecimalDigits(entry.size) + 1
    IN IF cursor + needed + 1 > end
       THEN [err |-> SPIFFS_ERR_INTERNAL, cursor |-> cursor]
       ELSE [err |-> 0, cursor |-> cursor + needed]

\* the SPIFFS_readdir loop of spiffsjs_list_inner over the entries lo..hi,
\* in order: the first half, then, unless an entry failed, the rest
RECURSIVE SpListLoop(_, _, _, _, _)
SpListLoop(dir, lo, hi, cursor, end) ==
    IF lo > hi THEN [err |-> 0, cursor |-> cursor]
    ELSE IF lo = hi THEN spiffsjs_emit_entry(dir[lo], cursor, end)
    ELSE LET mid == (lo + hi) \div 2
             Emitted(e) ==
                 IF e.err # 0 THEN e
                 ELSE SpListLoop(dir, mid + 1, hi, e.cursor, end)
         IN Emitted(SpListLoop(dir, lo, mid, cursor, end))

\* the result is the number of characters written, out the lines
spiffsjs_list_inner(m, buffer_ptr, buffer_len) ==
    IF ~m.g_is_mounted THEN [res |-> SPIFFS_ERR_NOT_MOUNTED, out |-> <<>>]
    ELSE IF buffer_ptr = 0 \/ buffer_len = 0
    THEN [res |-> SPIFFS_ERR_INTERNAL, out |-> <<>>]
    ELSE LET dir == SPIFFS_readdir(m.g_storage.blocks)
             Listed(l) ==
                 IF l.err # 0 THEN [res |-> l.err, out |-> <<>>]
                 ELSE [res |-> l.cursor, out |-> dir]
         IN Listed(SpListLoop(dir, 1, Len(dir), 0, buffer_len))

spiffsjs_list(m, buffer_ptr, buffer_len) ==
    spiffsjs_list_inner(m, buffer_ptr, buffer_len)

spiffsjs_storage_size(m) == m.g_total_bytes

spiffsjs_export_image(m, buffer_ptr, buffer_len) ==
    IF m.g_storage = NullStorage \/ m.g_total_bytes = 0
    THEN [res |-> SPIFFS_ERR_NOT_CONFIGURED, image |-> NullImage]
    ELSE IF buffer_ptr = 0 \/ buffer_len < m.g_total_bytes
    THEN [res |-> SPIFFS_ERR_INTERNAL, image |-> NullImage]
    ELSE [res |-> m.g_total_bytes,
          image |-> [len |-> m.g_total_bytes, bytes |-> m.g_storage]]

spiffsjs_get_usage(m, usage_ptr) ==
    IF spiffsjs_ensure_mounted(m) # 0
    THEN [res |-> spiffsjs_ensure_mounted(m), dest |-> <<>>]
    ELSE IF usage_ptr = 0
    THEN [res |-> SPIFFS_ERR_NOT_CONFIGURED, dest |-> <<>>]
    ELSE LET i == SPIFFS_info(m.g_page_size, m.g_storage.blocks)
             free_bytes == IF i.total > i.used THEN i.total - i.used ELSE 0
         IN [res |-> 0, dest |-> <<i.total, i.used, free_bytes>>]

spiffsjs_can_fit(m, path, length) ==
    IF spiffsjs_ensure_mounted(m) # 0 THEN spiffsjs_ensure_mounted(m)
    ELSE IF path = NULL THEN SPIFFS_ERR_NOT_CONFIGURED
    ELSE LET i == SPIFFS_info(m.g_page_size, m.g_storage.blocks)
             free_bytes == IF i.total > i.used THEN i.total - i.used ELSE 0
         IN IF length <= free_bytes THEN 1 ELSE 0

---------------------------------------------------------------------------
(* SpiffsClient (src/ts/spiffs/index.ts) and the calls the clients make *)

\* SpiffsClient.read: the size first, then the bytes into a buffer of
\* exactly that size
SpiffsClient_read(m, name) ==
    LET size == spiffsjs_file_size(m, name)
    IN IF size < 0 THEN [ok |-> FALSE, code |-> size, bytes |-> <<>>]
       ELSE IF size = 0 THEN [ok |-> TRUE, code |-> 0, bytes |-> <<>>]
       ELSE LET r == spiffsjs_read_file(m, name, 1, size)
            IN IF r.res < 0 THEN [ok |-> FALSE, code |-> r.res, bytes |-> <<>>]
               ELSE [ok |-> TRUE, code |-> r.res,
                     bytes |-> SubSeq(r.buf, 1, size)]

\* SpiffsClient.list: one call with the list buffer of the client; a
\* negative result is thrown, else the lines are parsed into (name, size)
\* pairs
SpiffsClient_listOutcome(m) ==
    LET Done(r) ==
            IF r.res < 0 THEN [ok |-> FALSE, code |-> r.res, value |-> <<>>]
            ELSE IF r.res = 0 THEN [ok |-> TRUE, code |-> 0, value |-> <<>>]
            ELSE [ok |-> TRUE, code |-> r.res, value |-> r.out]
    IN Done(spiffsjs_list(m, 1, INITIAL_LIST_BUFFER))

\* the entries list() resolves to, none when it throws
SpiffsClient_list(m) == SpiffsClient_listOutcome(m).value

\* what SpiffsClient.read returns for every name
SpiffsClient_files(m) == [n \in SpNames |-> SpiffsClient_read(m, n)]

\* geometries handed to spiffsjs_init: <<page size, block size, blocks>>
SpGeometries == { <<2, 16, 3>>, <<0, 16, 3>> }

\* geometries an image is reopened with beside those: other block sizes
\* and page sizes over the same number of bytes, and one more block
SpReopenGeometries == { <<2, 24, 2>>, <<3, 24, 2>>, <<2, 16, 4>> }

SpPaths == SpNames \cup {NULL}

\* the application client uses the whole interface on short files; the
\* churn client rewrites and removes files until the storage wraps around
SpBudget ==
    IF spClient = "app" THEN MaxApiOps
    ELSE IF spClient = "churn" THEN MaxChurnOps
    ELSE MaxListerOps
SpWrites ==
    IF spClient = "app" THEN SpPaths \X AppPayloads
    ELSE IF spClient = "churn" THEN SpNames \X ChurnPayloads
    ELSE {}

\* the lister client opens a volume another tool filled with empty objects
\* whose names have the 31 characters an object name may have, and lists it
SpDigit(d) ==
    CASE d = 0 -> "0" [] d = 1 -> "1" [] d = 2 -> "2" [] d = 3 -> "3"
      [] d = 4 -> "4" [] d = 5 -> "5" [] d = 6 -> "6" [] d = 7 -> "7"
      [] d = 8 -> "8" [] OTHER -> "9"

SpLongName(i) ==
    "object-name-of-31-characters"
        \o SpDigit((i \div 100) % 10) \o SpDigit((i \div 10) % 10)
        \o SpDigit(i % 10)

SpCrowdGeometry ==
    <<2, 16, (MaxCrowd + PagesPerBlock(2, 16) - 1) \div PagesPerBlock(2, 16)>>

\* a formatted volume of SpCrowdGeometry whose first n pages are the index
\* headers of n empty objects
SpCrowdedImage(n) ==
    LET ps == SpCrowdGeometry[1]
        bs == SpCrowdGeometry[2]
        bc == SpCrowdGeometry[3]
        ppb == PagesPerBlock(ps, bs)
        Page(k) ==
            IF k > n THEN FreePage
            ELSE [FreePage EXCEPT !.st = "used", !.ix = TRUE, !.id = k,
                                  !.name = SpLongName(k)]
    IN [len |-> bs * bc,
        bytes |->
          [ps |-> ps, bs |-> bs,
           blocks |-> [b \in 1..bc |->
                         [magic |-> Magic(ps, bc, b), age |-> 0,
                          pages |-> [q \in 1..ppb |->
                                       Page((b - 1) * ppb + q)]]]]]

\* the volumes of the lister: the fullest one or one object less
SpCrowdedImages == { SpCrowdedImage(MaxCrowd - 1), SpCrowdedImage(MaxCrowd) }

\* name of each object that is present |-> its bytes
SpContents(ps, blocks) ==
    [n \in { x \in SpNames : Lookup(blocks, x) # {} } |->
       ObjBytes(ps, blocks,
                PageAt(blocks, CHOOSE a \in Lookup(blocks, n) : TRUE).id)]

\* the record of a call; pre holds what the client observed before it
SpCall(op, path, data, res, out) ==
    [op |-> op, path |-> path, data |-> data, res |-> res, out |-> out,
     gcMax |-> 0, gcN |-> 0, pre |-> <<>>, calls |-> <<>>]

SpiffsInit ==
    /\ spiffs = SpReleased
    /\ spLast = SpCall("none", NULL, NULL, 0, <<>>)
    /\ spImage = [image |-> NullImage, geometry |-> <<0, 0, 0>>,
                  list |-> <<>>, files |-> <<>>]
    /\ spGc = [n |-> 0, pre |-> <<>>, post |-> <<>>,
               vol |-> [ps |-> 0, blocks |-> <<>>, active |-> 1, gen |-> 1]]
    /\ spClient \in {"app", "churn", "lister"}
    /\ spOps = 0

\* a call of the SPIFFS module leaves the other modules alone
FatIdle == UNCHANGED <<fatVars, lfsVars, halVars, fat7Vars, roVars>>

\* a page instantiates one of the modules: the client of the SPIFFS module
\* runs while no call of another module has been made
SpDrives == fatLast.op = "none" /\ lfsLast.op = "none"

\* what SPIFFS_format may return to spiffsjs_format
SpFormatResults == { SPIFFS_OK, SPIFFS_ERR_ERASE_FAIL }

\* the core is in the state the binding takes it to be in; the calls on a
\* core that was unmounted behind the binding's back are not followed
SpCoreAgrees == spiffs.g_is_mounted => spiffs.g_fs.mounted

\* a call that may change the module counts against the client's budget
SpStep ==
    /\ SpDrives
    /\ SpCoreAgrees
    /\ spOps < SpBudget /\ spOps' = spOps + 1 /\ UNCHANGED spClient
SpQuery ==
    /\ SpDrives
    /\ SpCoreAgrees
    /\ spClient \in {"app", "lister"}
    /\ UNCHANGED <<spOps, spClient, spiffs, spGc>>

SpInit ==
    \E g \in SpGeometries :
       LET r == spiffsjs_init(spiffs, g[1], g[2], g[3])
       IN /\ SpStep
          /\ spiffs' = r.m
          /\ spLast' = [SpCall("init", NULL, g, r.err, <<>>)
                          EXCEPT !.calls = r.calls]
          /\ UNCHANGED <<spImage, spGc>>
          /\ FatIdle

SpInitFromImage ==
    \E g \in SpGeometries \cup SpReopenGeometries \cup {SpCrowdGeometry},
       image \in {spImage.image, NullImage} \cup SpCrowdedImages :
       LET r == spiffsjs_init_from_image(spiffs, g[1], g[2], g[3], image)
       IN /\ SpStep
          /\ \/ spClient = "app" /\ g # SpCrowdGeometry
                                /\ image \notin SpCrowdedImages
             \/ spClient = "lister" /\ g = SpCrowdGeometry
                                   /\ image \in SpCrowdedImages
          /\ spiffs' = r.m
          /\ spLast' = [SpCall("init_from_image", NULL, g, r.err, <<>>)
                          EXCEPT !.pre = [image_len |-> image.len]]
          /\ UNCHANGED <<spImage, spGc>>
          /\ FatIdle

SpFormat ==
    \E format_res \in SpFormatResults :
    LET r == spiffsjs_format(spiffs, format_res)
        u == spiffsjs_get_usage(spiffs, 1)
    IN /\ SpStep /\ spClient = "app"
       /\ spiffs' = r.m
       /\ spLast' = [SpCall("format", NULL, NULL, r.err, <<>>)
                       EXCEPT !.pre = [mounted |-> spiffs.g_is_mounted,
                                       op |-> spLast.op, res |-> spLast.res,
                                       usage |-> u.dest]]
       /\ UNCHANGED <<spImage, spGc>>
       /\ FatIdle

SpFileSize ==
    \E path \in SpPaths :
       /\ SpQuery
       /\ spLast' = SpCall("file_size", path, NULL,
                           spiffsjs_file_size(spiffs, path), <<>>)
       /\ UNCHANGED spImage
       /\ FatIdle

SpReadFile ==
    \E path \in SpPaths, buffer_len \in {0, 2, 3} :
       LET r == spiffsjs_read_file(spiffs, path,
                   IF buffer_len = 0 THEN 0 ELSE 1, buffer_len)
       IN /\ SpQuery
          /\ spLast' = SpCall("read_file", path, NULL, r.res, r.buf)
          /\ UNCHANGED spImage
          /\ FatIdle

SpWriteFile ==
    \E w \in SpWrites :
    \E r \in { spiffsjs_write_file(spiffs, w[1],
                  [ptr |-> IF w[2] = <<>> THEN 0 ELSE 1, bytes |-> w[2]],
                  Len(w[2])) } :
       LET path == w[1]
           data == w[2]
       IN /\ SpStep
          /\ spiffs' = r.m
          /\ spLast' = [SpCall("write_file", path, data, r.res, <<>>)
                          EXCEPT !.gcMax = r.c.gcMax, !.gcN = r.c.gcN,
                                 !.pre = [size |->
                                            spiffsjs_file_size(spiffs, path)]]
          /\ spGc' = IF r.c.gcN = 0 THEN spGc
                     ELSE [n |-> r.c.gcN,
                           pre |-> SpContents(spiffs.g_page_size,
                                              r.c.pre.blocks),
                           post |-> SpContents(spiffs.g_page_size, r.c.post),
                           vol |-> r.c.pre]
          /\ UNCHANGED spImage
          /\ FatIdle

SpRemoveFile ==
    \E path \in SpPaths :
       LET r == spiffsjs_remove_file(spiffs, path)
       IN /\ SpStep
          /\ spClient = "churn" => path # NULL
          /\ spiffs' = r.m
          /\ spLast' = [SpCall("remove_file", path, NULL, r.res, <<>>)
                          EXCEPT !.pre = [usage |->
                                            spiffsjs_get_usage(spiffs, 1).dest]]
          /\ UNCHANGED <<spImage, spGc>>
          /\ FatIdle

SpList ==
    LET r == spiffsjs_list(spiffs, 1, INITIAL_LIST_BUFFER)
    IN /\ SpQuery
       /\ spLast' = SpCall("list", NULL, NULL, r.res, r.out)
       /\ UNCHANGED spImage
       /\ FatIdle

\* SpiffsClient.toImage: the storage size, then the copy
SpExportImage ==
    LET size == spiffsjs_storage_size(spiffs)
        r == spiffsjs_export_image(spiffs, IF size = 0 THEN 0 ELSE 1, size)
    IN /\ SpStep /\ spClient = "app"
       /\ spLast' = SpCall("export_image", NULL, NULL, r.res, <<>>)
       /\ spImage' = IF r.res < 0 THEN spImage
                     ELSE [image |-> r.image,
                           geometry |-> <<spiffs.g_page_size,
                                          spiffs.g_block_size,
                                          spiffs.g_block_count>>,
                           list |-> SpiffsClient_list(spiffs),
                           files |-> SpiffsClient_files(spiffs)]
       /\ UNCHANGED <<spiffs, spGc>>
       /\ FatIdle

SpGetUsage ==
    LET r == spiffsjs_get_usage(spiffs, 1)
    IN /\ SpQuery
       /\ spLast' = SpCall("get_usage", NULL, NULL, r.res, r.dest)
       /\ UNCHANGED spImage
       /\ FatIdle

SpCanFit ==
    \E path \in SpPaths, length \in {0, 64} :
       /\ SpQuery
       /\ spLast' = SpCall("can_fit", path, length,
                           spiffsjs_can_fit(spiffs, path, length), <<>>)
       /\ UNCHANGED spImage
       /\ FatIdle

SpiffsNext ==
    \/ SpInit
    \/ SpInitFromImage
    \/ SpFormat
    \/ SpFileSize
    \/ SpReadFile
    \/ SpWriteFile
    \/ SpRemoveFile
    \/ SpList
    \/ SpExportImage
    \/ SpGetUsage
    \/ SpCanFit

---------------------------------------------------------------------------
(* Properties of the SPIFFS binding *)

\* C1: after spiffsjs_write_file(name, b) succeeds, SpiffsClient.read(name)
\* returns exactly b, same length and same bytes, whatever ran before
C1_WriteReadRoundTrip ==
    (spLast.op = "write_file" /\ spLast.res = 0)
        => SpiffsClient_read(spiffs, spLast.path)
              = [ok |-> TRUE, code |-> Len(spLast.data),
                 bytes |-> spLast.data]

\* a write of several pages succeeded over an older file after the storage
\* had filled up and been collected
C1_Witness ==
    /\ spLast.op = "write_file" /\ spLast.res = 0
    /\ Len(spLast.data) >= 3 * spiffs.g_page_size
    /\ spLast.pre.size > 0
    /\ spGc.n > 0

\* an empty write succeeded over a file that held bytes
C1_WitnessEmpty ==
    /\ spLast.op = "write_file" /\ spLast.res = 0
    /\ spLast.data = <<>> /\ spLast.pre.size > 0

\* C2: a volume initialised by init_from_image from the exported bytes, with
\* the geometry of the exported volume, lists the same entries and reads
\* every file byte-identical
C2_ExportImportRoundTrip ==
    (spLast.op = "init_from_image" /\ spLast.res = 0
     /\ spLast.data = spImage.geometry)
        => /\ spiffs.g_is_mounted
           /\ SpiffsClient_list(spiffs) = spImage.list
           /\ SpiffsClient_files(spiffs) = spImage.files

\* an image holding a file with bytes was imported
C2_Witness ==
    /\ spLast.op = "init_from_image" /\ spLast.res = 0
    /\ spLast.data = spImage.geometry
    /\ \E n \in SpNames : spImage.files[n].ok /\ spImage.files[n].bytes # <<>>
    /\ spImage.list # <<>>

\* C3: a spiffsjs_write_file that fails for lack of space leaves a file that
\* existed before the call at the size it had before the call
C3_FailedWriteKeepsSize ==
    (spLast.op = "write_file" /\ spLast.res = SPIFFS_ERR_FULL
     /\ spLast.pre.size >= 0)
        => spiffsjs_file_size(spiffs, spLast.path) = spLast.pre.size

\* a write failed for lack of space on a file that held bytes
C3_Witness ==
    /\ spLast.op = "write_file" /\ spLast.res = SPIFFS_ERR_FULL
    /\ spLast.pre.size > 0

\* C4: no allocation triggers more than one garbage collection pass, and a
\* write fails with SPIFFS_ERR_FULL only after a pass was attempted
C4_OneGcAttempt ==
    spLast.op = "write_file"
        => /\ spLast.gcMax <= 1
           /\ spLast.res = SPIFFS_ERR_FULL => spLast.gcN >= 1
           /\ spLast.res \in {0, SPIFFS_ERR_FULL, SPIFFS_ERR_NOT_MOUNTED,
                              SPIFFS_ERR_NOT_CONFIGURED}

\* a write found no free page, collected once and then succeeded
C4_Witness ==
    spLast.op = "write_file" /\ spLast.res = 0 /\ spLast.gcN >= 1

\* C5: every object present before a garbage collection pass is present
\* after it and reads back the same bytes
C5_GcPreservesContent == spGc.n > 0 => spGc.pre = spGc.post

\* a pass ran while an object held bytes
C5_Witness ==
    /\ spGc.n > 0
    /\ \E n \in DOMAIN spGc.pre : spGc.pre[n] # <<>>

\* C6: format on a mounted volume succeeds, leaves the volume mounted with
\* zero objects, and a second format in a row reports the same usage
C6_FormatIdempotent ==
    (spLast.op = "format" /\ spLast.pre.mounted)
        => /\ spLast.res = 0
           /\ spiffs.g_is_mounted
           /\ spiffsjs_list(spiffs, 1, INITIAL_LIST_BUFFER)
                  = [res |-> 0, out |-> <<>>]
           /\ (spLast.pre.op = "format" /\ spLast.pre.res = 0)
                 => spiffsjs_get_usage(spiffs, 1).dest = spLast.pre.usage

\* format was called on a mounted volume
C6_Witness == spLast.op = "format" /\ spLast.pre.mounted

\* C8: after spiffsjs_remove_file succeeds, the used bytes reported by
\* spiffsjs_get_usage are strictly lower than before the remove
C8_RemoveLowersUsed ==
    (spLast.op = "remove_file" /\ spLast.res = 0)
        => spiffsjs_get_usage(spiffs, 1).dest[2] < spLast.pre.usage[2]

\* a file holding bytes was removed
C8_Witness ==
    /\ spLast.op = "remove_file" /\ spLast.res = 0
    /\ spLast.pre.usage[2] >= 2 * spiffs.g_page_size

---------------------------------------------------------------------------
(* Part II.  FatFs (ff.c, ff.h) as the binding uses it                     *)
(*                                                                         *)
(* A path is the sequence of its segments: "/fatfs/d/b" is                 *)
(* <<"fatfs", "d", "b">>, a doubled separator leaves an empty segment.     *)
(* File data is run-length coded: [len, tag] is len bytes of the byte      *)
(* pattern tag, so a prefix of a payload differs from it in len.           *)
(* The first two sectors of the storage are kept by kind:                  *)
(*   "erased"  0xFF bytes                                                  *)
(*   "vbr"     a FAT boot record: jump opcode, 55 AA signature, 4096       *)
(*             bytes per sector                                            *)
(*   "mbr"     a partition table: 55 AA signature, no jump opcode          *)
(*   "data"    anything else                                               *)
(* at is the sector offset the FAT volume was laid out for, vol is that    *)
(* volume, and stale is what a reader finds when it follows a boot record  *)
(* at sector 0 although the volume lies at sector 1.                       *)

FATFSJS_SECTOR_SIZE == 4096
FATFSJS_MAX_READ_CHUNK == 4096
FATFSJS_ERR_INVAL == -1
FATFSJS_ERR_NOT_MOUNTED == -2
FATFSJS_ERR_NOSPC == -3
FATFSJS_ERR_IO == -4

FR_OK == 0
FR_NO_FILE == 4
FR_NO_PATH == 5
FR_INVALID_NAME == 6
FR_DENIED == 7
FR_EXIST == 8
FR_NO_FILESYSTEM == 13
FR_MKFS_ABORTED == 14

\* f_mkfs without FM_SFD puts a partition table into the first sector and
\* starts the volume N_SEC_TRACK sectors behind it; it refuses a volume of
\* fewer than FF_MIN_VOLUME sectors; the boot record, one FAT and the root
\* directory of a small FAT volume take FF_SYSTEM_SECTORS sectors; one
\* cluster is one sector
N_SEC_TRACK == 63
FF_MIN_VOLUME == 128
FF_SYSTEM_SECTORS == 6

NoVolume == [tree |-> {}, clusters |-> 0]
NoData == [len |-> 0, tag |-> ""]

\* names in the order f_readdir returns them
FatNames == <<"a", "b", "d", "e", "j">>

FatParent(p) == SubSeq(p, 1, Len(p) - 1)

FatIsDir(tree, p) == p = <<>> \/ \E e \in tree : e.path = p /\ e.dir

FatExists(tree, p) == p = <<>> \/ \E e \in tree : e.path = p

FatEntry(tree, p) == CHOOSE e \in tree : e.path = p

\* the error of a lookup that finds no object
FatMissing(tree, p) ==
    IF FatIsDir(tree, FatParent(p)) THEN FR_NO_FILE ELSE FR_NO_PATH

FatClustersOf(e) ==
    IF e.dir THEN 1
    ELSE (e.size + FATFSJS_SECTOR_SIZE - 1) \div FATFSJS_SECTOR_SIZE

RECURSIVE FatUsedClusters(_)
FatUsedClusters(tree) ==
    IF tree = {} THEN 0
    ELSE LET e == CHOOSE x \in tree : TRUE
         IN FatClustersOf(e) + FatUsedClusters(tree \ {e})

FatSector(st, off) == IF off = 0 THEN st.s0 ELSE st.s1

\* f_mount with opt = 1: the sector the volume starts at must hold a boot
\* record or a partition table that leads to one
f_mount(st, off) ==
    IF st.at = off /\ FatSector(st, off) \in {"vbr", "mbr"} THEN FR_OK
    ELSE IF FatSector(st, off) = "vbr" THEN FR_OK
    ELSE FR_NO_FILESYSTEM

\* the volume f_mount has attached, and the storage after a change to it
FatVolume(st, off) == IF st.at = off THEN st.vol ELSE st.stale

FatStore(st, off, v) ==
    IF st.at = off THEN [st EXCEPT !.vol = v] ELSE [st EXCEPT !.stale = v]

\* f_mkfs(FM_FAT) over the n sectors disk_ioctl reports, written through
\* disk_write at sector offset off
f_mkfs(st, off, n) ==
    LET sz_vol == IF n > N_SEC_TRACK THEN n - N_SEC_TRACK ELSE n
    IN IF sz_vol < FF_MIN_VOLUME
       THEN [res |-> FR_MKFS_ABORTED, st |-> st]
       ELSE [res |-> FR_OK,
             st |-> [s0 |-> IF off = 0 THEN "mbr" ELSE st.s0,
                     s1 |-> IF off = 1 THEN "mbr" ELSE st.s1,
                     at |-> off,
                     vol |-> [tree |-> {},
                              clusters |-> sz_vol - FF_SYSTEM_SECTORS],
                     stale |-> st.stale]]

f_stat(tree, p) ==
    IF p = <<>> THEN [res |-> FR_INVALID_NAME, dir |-> TRUE, fsize |-> 0]
    ELSE IF ~FatExists(tree, p)
    THEN [res |-> FatMissing(tree, p), dir |-> FALSE, fsize |-> 0]
    ELSE [res |-> FR_OK, dir |-> FatEntry(tree, p).dir,
          fsize |-> FatEntry(tree, p).size]

f_opendir(tree, p) == IF FatIsDir(tree, p) THEN FR_OK ELSE FR_NO_PATH

f_mkdir(v, p) ==
    IF FatExists(v.tree, p) THEN [res |-> FR_EXIST, vol |-> v]
    ELSE IF ~FatIsDir(v.tree, FatParent(p))
    THEN [res |-> FR_NO_PATH, vol |-> v]
    ELSE IF FatUsedClusters(v.tree) >= v.clusters
    THEN [res |-> FR_DENIED, vol |-> v]
    ELSE [res |-> FR_OK,
          vol |-> [v EXCEPT !.tree = @ \cup
                     {[path |-> p, dir |-> TRUE, size |-> 0, tag |-> ""]}]]

\* f_open(FA_WRITE | FA_CREATE_ALWAYS)
f_open(v, p) ==
    IF p = <<>> THEN [res |-> FR_INVALID_NAME, vol |-> v]
    ELSE IF FatIsDir(v.tree, p) THEN [res |-> FR_DENIED, vol |-> v]
    ELSE IF ~FatIsDir(v.tree, FatParent(p))
    THEN [res |-> FR_NO_PATH, vol |-> v]
    ELSE [res |-> FR_OK,
          vol |-> [v EXCEPT !.tree =
                     { e \in @ : e.path # p } \cup
                     {[path |-> p, dir |-> FALSE, size |-> 0, tag |-> ""]}]]

\* f_write reports FR_OK and writes what fits when the volume fills up
f_write(v, p, tag, btw) ==
    LET Put(e, room) ==
            LET bw == IF btw < room THEN btw ELSE room
            IN [res |-> FR_OK, bw |-> bw,
                vol |-> IF bw = 0 THEN v
                        ELSE [v EXCEPT !.tree = (@ \ {e}) \cup
                                {[e EXCEPT !.size = @ + bw, !.tag = tag]}]]
        Room(e) ==
            (v.clusters - FatUsedClusters(v.tree)) * FATFSJS_SECTOR_SIZE
            + (FatClustersOf(e) * FATFSJS_SECTOR_SIZE - e.size)
        At(e) == Put(e, Room(e))
    IN At(FatEntry(v.tree, p))

f_unlink(v, p) ==
    IF p = <<>> THEN [res |-> FR_INVALID_NAME, vol |-> v]
    ELSE IF ~FatExists(v.tree, p)
    THEN [res |-> FatMissing(v.tree, p), vol |-> v]
    ELSE IF \E e \in v.tree : e.path # p /\ FatParent(e.path) = p
    THEN [res |-> FR_DENIED, vol |-> v]
    ELSE [res |-> FR_OK,
          vol |-> [v EXCEPT !.tree = { e \in @ : e.path # p }]]

\* the object and, for a directory, everything below it moves; a new name
\* that resolves to the object itself is no collision, the entry is written
\* anew under the same name
f_rename(v, old, new) ==
    LET Under(q) == Len(q) >= Len(old) /\ SubSeq(q, 1, Len(old)) = old
        Moved(e) ==
            [e EXCEPT !.path = new \o SubSeq(@, Len(old) + 1, Len(@))]
    IN IF old = <<>> THEN [res |-> FR_INVALID_NAME, vol |-> v]
       ELSE IF ~FatExists(v.tree, old)
       THEN [res |-> FatMissing(v.tree, old), vol |-> v]
       ELSE IF new = old THEN [res |-> FR_OK, vol |-> v]
       ELSE IF FatExists(v.tree, new) THEN [res |-> FR_EXIST, vol |-> v]
       ELSE IF ~FatIsDir(v.tree, FatParent(new))
       THEN [res |-> FR_NO_PATH, vol |-> v]
       ELSE [res |-> FR_OK,
             vol |-> [v EXCEPT !.tree =
                        { e \in @ : ~Under(e.path) } \cup
                        { Moved(e) : e \in { x \in @ : Under(x.path) } }]]
---------------------------------------------------------------------------
(* FatFS binding: fatfs_wasm.c *)

\* g_storage when no buffer is allocated
NullFatStorage ==
    [s0 |-> "null", s1 |-> "null", at |-> -1, vol |-> NoVolume,
     stale |-> NoVolume]

\* malloc'ed storage filled with 0xFF
ErasedFatStorage ==
    [s0 |-> "erased", s1 |-> "erased", at |-> -1, vol |-> NoVolume,
     stale |-> NoVolume]

\* the globals after fatfsjs_release, which is also their initial value;
\* stuck is set when an exported call never returns to its caller
FatReleased ==
    [g_is_mounted |-> FALSE, g_storage |-> NullFatStorage,
     g_sector_count |-> 0, g_volume_sector_count |-> 0,
     g_sector_offset |-> 0, g_total_bytes |-> 0, stuck |-> FALSE]

fatfsjs_result(res) == IF res = FR_OK THEN 0 ELSE -res

fatfsjs_ensure_mounted(m) ==
    IF m.g_is_mounted THEN 0 ELSE FATFSJS_ERR_NOT_MOUNTED

fatfsjs_is_boot_sector(sector) == sector = "vbr"

fatfsjs_detect_offset(m) ==
    LET m0 == [m EXCEPT !.g_sector_offset = 0,
                        !.g_volume_sector_count = m.g_sector_count]
        boot0 == fatfsjs_is_boot_sector(m.g_storage.s0)
        boot1 == fatfsjs_is_boot_sector(m.g_storage.s1)
        off == IF boot1 /\ ~boot0 THEN 1
               ELSE IF boot0 /\ boot1 THEN 1
               ELSE 0
        offset == IF off >= m.g_sector_count THEN 0 ELSE off
    IN IF m.g_storage = NullFatStorage \/ m.g_sector_count < 2 THEN m0
       ELSE [m0 EXCEPT !.g_sector_offset = offset,
                       !.g_volume_sector_count = m.g_sector_count - offset]

\* the null path pointer, the spellings the mount prefix is matched in
FatNullPath == <<NULL>>
FatMountNames == { "fatfs", "FATFS", "FatFs" }

RECURSIVE FatSkipSeparators(_)
FatSkipSeparators(cursor) ==
    IF cursor # <<>> /\ Head(cursor) = ""
    THEN FatSkipSeparators(Tail(cursor))
    ELSE cursor

fatfsjs_skip_mount(path) ==
    LET After(cursor) ==
            IF cursor # <<>> /\ Head(cursor) \in FatMountNames
            THEN FatSkipSeparators(Tail(cursor))
            ELSE cursor
    IN IF path = FatNullPath THEN <<>>
       ELSE After(FatSkipSeparators(path))

\* the segments behind "0:/"; the paths of the model are far shorter than
\* FATFSJS_PATH_MAX, so the length checks never fail
fatfsjs_build_ff_path(path) ==
    [err |-> 0,
     ff |-> SelectSeq(fatfsjs_skip_mount(path), LAMBDA s : s # "")]

fatfsjs_join_path(base, leaf) == Append(base, leaf)

\* one line "path \t size \t type" of the listing; the listings of the
\* model's volumes fit into every buffer the client passes
fatfsjs_emit_entry(path, size, type) ==
    [path |-> path, size |-> size, type |-> type]

RECURSIVE fatfsjs_list_dir(_, _, _)
RECURSIVE FatReadDir(_, _, _, _)
\* the f_readdir loop of fatfsjs_list_dir from the i-th name on
FatReadDir(tree, ff_path, rel_prefix, i) ==
    IF i > Len(FatNames) THEN <<>>
    ELSE LET Visit(child_ff, rel_path) ==
                 IF ~FatExists(tree, child_ff) THEN <<>>
                 ELSE IF FatEntry(tree, child_ff).dir
                 THEN <<fatfsjs_emit_entry(rel_path, 0, "d")>>
                      \o fatfsjs_list_dir(tree, child_ff, rel_path).out
                 ELSE <<fatfsjs_emit_entry(
                          rel_path, FatEntry(tree, child_ff).size, "f")>>
         IN Visit(fatfsjs_join_path(ff_path, FatNames[i]),
                  fatfsjs_join_path(rel_prefix, FatNames[i]))
            \o FatReadDir(tree, ff_path, rel_prefix, i + 1)

fatfsjs_list_dir(tree, ff_path, rel_prefix) ==
    IF f_opendir(tree, ff_path) # FR_OK
    THEN [err |-> fatfsjs_result(f_opendir(tree, ff_path)), out |-> <<>>]
    ELSE [err |-> 0, out |-> FatReadDir(tree, ff_path, rel_prefix, 1)]

\* f_mkdir for every prefix of ff_path that ends before its last separator:
\* the loop stops short of last, so the directory that is to hold the file
\* is not among them
RECURSIVE FatMkdirsFrom(_, _, _)
FatMkdirsFrom(v, ff_path, k) ==
    IF k > Len(ff_path) - 2 THEN [err |-> 0, vol |-> v]
    ELSE LET Next(r) ==
                 IF r.res # FR_OK /\ r.res # FR_EXIST
                 THEN [err |-> fatfsjs_result(r.res), vol |-> r.vol]
                 ELSE FatMkdirsFrom(r.vol, ff_path, k + 1)
         IN Next(f_mkdir(v, SubSeq(ff_path, 1, k)))

fatfsjs_ensure_parent_dirs(v, ff_path) == FatMkdirsFrom(v, ff_path, 1)

fatfsjs_format_internal(m) ==
    LET Done(r) ==
            [err |-> fatfsjs_result(r.res), m |-> [m EXCEPT !.g_storage = r.st]]
    IN Done(f_mkfs(m.g_storage, m.g_sector_offset, m.g_volume_sector_count))

fatfsjs_release(m) == FatReleased

\* block counts of the model keep the product far below UINT32_MAX
fatfsjs_configure(m, block_size, block_count, clear_storage) ==
    IF block_size # FATFSJS_SECTOR_SIZE \/ block_count = 0
    THEN [err |-> FATFSJS_ERR_INVAL, m |-> m]
    ELSE IF block_size * block_count = 0
    THEN [err |-> FATFSJS_ERR_INVAL, m |-> m]
    ELSE [err |-> 0,
          m |-> [fatfsjs_release(m) EXCEPT
                   !.g_storage = ErasedFatStorage,
                   !.g_sector_count = block_count,
                   !.g_volume_sector_count = block_count,
                   !.g_sector_offset = 0,
                   !.g_total_bytes = block_size * block_count]]

fatfsjs_mount_internal(m, allow_format) ==
    LET Mount(x) == f_mount(x.g_storage, x.g_sector_offset)
        Mounted(x) ==
            [err |-> fatfsjs_result(Mount(x)),
             m |-> [x EXCEPT !.g_is_mounted = (Mount(x) = FR_OK)]]
        Formatted(f) ==
            IF f.err < 0
            THEN [err |-> f.err, m |-> [f.m EXCEPT !.g_is_mounted = FALSE]]
            ELSE Mounted(f.m)
    IN IF Mount(m) # FR_OK /\ allow_format
       THEN Formatted(fatfsjs_format_internal(m))
       ELSE Mounted(m)

fatfsjs_init(m, block_size, block_count) ==
    LET Configured(c) ==
            IF c.err # 0 THEN c
            ELSE LET Mounted(r) ==
                         IF r.err # 0
                         THEN [err |-> r.err, m |-> fatfsjs_release(r.m)]
                         ELSE r
                 IN Mounted(fatfsjs_mount_internal(c.m, TRUE))
    IN Configured(fatfsjs_configure(m, block_size, block_count, TRUE))

\* an image pointer with its length; bytes is what the memory holds there
NullFatImage == [len |-> 0, bytes |-> NullFatStorage]

fatfsjs_init_from_image(m, image, image_len) ==
    LET Configured(c) ==
            IF c.err # 0 THEN c
            ELSE LET Mounted(r) ==
                         IF r.err # 0
                         THEN [err |-> r.err, m |-> fatfsjs_release(r.m)]
                         ELSE r
                 IN Mounted(fatfsjs_mount_internal(
                        fatfsjs_detect_offset(
                            [c.m EXCEPT !.g_storage = image.bytes]), FALSE))
    IN IF image = NullFatImage \/ image_len = 0
       THEN [err |-> FATFSJS_ERR_INVAL, m |-> m]
       ELSE IF image_len % FATFSJS_SECTOR_SIZE # 0
       THEN [err |-> FATFSJS_ERR_INVAL, m |-> m]
       ELSE Configured(fatfsjs_configure(
                m, FATFSJS_SECTOR_SIZE,
                image_len \div FATFSJS_SECTOR_SIZE, FALSE))

fatfsjs_format(m) ==
    LET Formatted(f) ==
            IF f.err # 0 THEN f ELSE fatfsjs_mount_internal(f.m, FALSE)
    IN IF m.g_storage = NullFatStorage \/ m.g_sector_count = 0
       THEN [err |-> FATFSJS_ERR_NOT_MOUNTED, m |-> m]
       ELSE Formatted(fatfsjs_format_internal(
                [m EXCEPT !.g_is_mounted = FALSE]))

\* the volume the mounted module works on
FatMounted(m) == FatVolume(m.g_storage, m.g_sector_offset)

FatCommit(m, v) ==
    [m EXCEPT !.g_storage = FatStore(@, m.g_sector_offset, v)]

fatfsjs_list(m, path, buffer_ptr, buffer_len) ==
    LET List(tree, ff_path) ==
            IF f_stat(tree, ff_path).res = FR_OK /\ ~f_stat(tree, ff_path).dir
            THEN [res |-> 1,
                  out |-> <<fatfsjs_emit_entry(
                               <<>>, f_stat(tree, ff_path).fsize, "f")>>]
            ELSE LET Listed(l) ==
                         IF l.err # 0 THEN [res |-> l.err, out |-> <<>>]
                         ELSE [res |-> Len(l.out), out |-> l.out]
                 IN Listed(fatfsjs_list_dir(tree, ff_path, <<>>))
    IN IF fatfsjs_ensure_mounted(m) # 0
       THEN [res |-> fatfsjs_ensure_mounted(m), out |-> <<>>]
       ELSE IF buffer_ptr = 0 \/ buffer_len = 0
       THEN [res |-> FATFSJS_ERR_INVAL, out |-> <<>>]
       ELSE List(FatMounted(m).tree, fatfsjs_build_ff_path(path).ff)

fatfsjs_file_size(m, path) ==
    LET Size(info) ==
            IF info.res # FR_OK THEN fatfsjs_result(info.res)
            ELSE IF info.dir THEN FATFSJS_ERR_INVAL
            ELSE info.fsize
    IN IF fatfsjs_ensure_mounted(m) # 0 THEN fatfsjs_ensure_mounted(m)
       ELSE Size(f_stat(FatMounted(m).tree, fatfsjs_build_ff_path(path).ff))

\* the f_read loop: f_read delivers what is left of the file, at most chunk
RECURSIVE FatReadLoop(_, _, _)
FatReadLoop(fsize, remaining, total_read) ==
    IF remaining = 0 THEN total_read
    ELSE LET chunk == IF remaining > FATFSJS_MAX_READ_CHUNK
                      THEN FATFSJS_MAX_READ_CHUNK ELSE remaining
             read == IF fsize - total_read < chunk
                     THEN fsize - total_read ELSE chunk
         IN IF read = 0 THEN total_read
            ELSE FatReadLoop(fsize, remaining - read, total_read + read)

fatfsjs_read_file(m, path, buffer_ptr, buffer_len) ==
    LET Read(tree, ff_path) ==
            LET info == f_stat(tree, ff_path)
            IN IF info.res # FR_OK
               THEN [res |-> fatfsjs_result(info.res), buf |-> NoData]
               ELSE IF info.dir
               THEN [res |-> FATFSJS_ERR_INVAL, buf |-> NoData]
               ELSE IF info.fsize > buffer_len
               THEN [res |-> FATFSJS_ERR_NOSPC, buf |-> NoData]
               ELSE IF FatReadLoop(info.fsize, info.fsize, 0) # info.fsize
               THEN [res |-> FATFSJS_ERR_IO, buf |-> NoData]
               ELSE [res |-> info.fsize,
                     buf |-> [len |-> info.fsize,
                              tag |-> FatEntry(tree, ff_path).tag]]
    IN IF fatfsjs_ensure_mounted(m) # 0
       THEN [res |-> fatfsjs_ensure_mounted(m), buf |-> NoData]
       ELSE IF path = FatNullPath \/ buffer_ptr = 0
       THEN [res |-> FATFSJS_ERR_INVAL, buf |-> NoData]
       ELSE Read(FatMounted(m).tree, fatfsjs_build_ff_path(path).ff)

\* the f_write loop; it has no exit for an f_write that returns FR_OK with
\* written = 0, which then repeats with nothing changed
RECURSIVE FatWriteLoop(_, _, _, _, _)
FatWriteLoop(v, ff_path, data, remaining, written_total) ==
    IF remaining = 0
    THEN [res |-> FR_OK, stuck |-> FALSE, vol |-> v,
          written_total |-> written_total]
    ELSE LET Next(w) ==
                 IF w.res # FR_OK
                 THEN [res |-> w.res, stuck |-> FALSE, vol |-> w.vol,
                       written_total |-> written_total]
                 ELSE IF w.bw = 0
                 THEN [res |-> FR_OK, stuck |-> TRUE, vol |-> w.vol,
                       written_total |-> written_total]
                 ELSE FatWriteLoop(w.vol, ff_path, data, remaining - w.bw,
                                   written_total + w.bw)
         IN Next(f_write(v, ff_path, data.tag,
                         IF remaining > FATFSJS_MAX_READ_CHUNK
                         THEN FATFSJS_MAX_READ_CHUNK ELSE remaining))

\* data is [ptr, tag]: the pointer and the byte pattern it points at
fatfsjs_write_file(m, path, data, length) ==
    LET Written(w) ==
            IF w.stuck
            THEN [res |-> 0, m |-> [FatCommit(m, w.vol) EXCEPT !.stuck = TRUE]]
            ELSE IF w.res # FR_OK
            THEN [res |-> fatfsjs_result(w.res), m |-> FatCommit(m, w.vol)]
            ELSE IF w.written_total # length
            THEN [res |-> FATFSJS_ERR_IO, m |-> FatCommit(m, w.vol)]
            ELSE [res |-> 0, m |-> FatCommit(m, w.vol)]
        Opened(o, ff_path) ==
            IF o.res # FR_OK
            THEN [res |-> fatfsjs_result(o.res), m |-> FatCommit(m, o.vol)]
            ELSE Written(FatWriteLoop(o.vol, ff_path, data, length, 0))
        Prepared(p, ff_path) ==
            IF p.err # 0 THEN [res |-> p.err, m |-> FatCommit(m, p.vol)]
            ELSE Opened(f_open(p.vol, ff_path), ff_path)
        Write(ff_path) ==
            Prepared(fatfsjs_ensure_parent_dirs(FatMounted(m), ff_path),
                     ff_path)
    IN IF fatfsjs_ensure_mounted(m) # 0
       THEN [res |-> fatfsjs_ensure_mounted(m), m |-> m]
       ELSE IF path = FatNullPath \/ (length > 0 /\ data.ptr = 0)
       THEN [res |-> FATFSJS_ERR_INVAL, m |-> m]
       ELSE Write(fatfsjs_build_ff_path(path).ff)

\* a delete that reports success and leaves the volume as it was
fatfsjs_delete_file_noop(m, path) ==
    IF fatfsjs_ensure_mounted(m) # 0
    THEN [res |-> fatfsjs_ensure_mounted(m), m |-> m]
    ELSE IF path = FatNullPath THEN [res |-> FATFSJS_ERR_INVAL, m |-> m]
    ELSE [res |-> fatfsjs_result(
                      f_unlink(FatMounted(m),
                               fatfsjs_build_ff_path(path).ff).res),
          m |-> m]

fatfsjs_delete_file(m, path) ==
    LET Done(r) == [res |-> fatfsjs_result(r.res), m |-> FatCommit(m, r.vol)]
    IN IF fatfsjs_ensure_mounted(m) # 0
       THEN [res |-> fatfsjs_ensure_mounted(m), m |-> m]
       ELSE IF path = FatNullPath THEN [res |-> FATFSJS_ERR_INVAL, m |-> m]
       ELSE Done(f_unlink(FatMounted(m), fatfsjs_build_ff_path(path).ff))

fatfsjs_mkdir(m, path) ==
    LET Done(r) == [res |-> fatfsjs_result(r.res), m |-> FatCommit(m, r.vol)]
    IN IF fatfsjs_ensure_mounted(m) # 0
       THEN [res |-> fatfsjs_ensure_mounted(m), m |-> m]
       ELSE IF path = FatNullPath THEN [res |-> FATFSJS_ERR_INVAL, m |-> m]
       ELSE Done(f_mkdir(FatMounted(m), fatfsjs_build_ff_path(path).ff))

\* fatfsjs_rename handing the two paths to f_rename in the other order
fatfsjs_rename_swapped(m, old_path, new_path) ==
    LET Done(r) == [res |-> fatfsjs_result(r.res), m |-> FatCommit(m, r.vol)]
    IN IF fatfsjs_ensure_mounted(m) # 0
       THEN [res |-> fatfsjs_ensure_mounted(m), m |-> m]
       ELSE IF old_path = FatNullPath \/ new_path = FatNullPath
       THEN [res |-> FATFSJS_ERR_INVAL, m |-> m]
       ELSE Done(f_rename(FatMounted(m),
                          fatfsjs_build_ff_path(new_path).ff,
                          fatfsjs_build_ff_path(old_path).ff))

fatfsjs_rename(m, old_path, new_path) ==
    LET Done(r) == [res |-> fatfsjs_result(r.res), m |-> FatCommit(m, r.vol)]
    IN IF fatfsjs_ensure_mounted(m) # 0
       THEN [res |-> fatfsjs_ensure_mounted(m), m |-> m]
       ELSE IF old_path = FatNullPath \/ new_path = FatNullPath
       THEN [res |-> FATFSJS_ERR_INVAL, m |-> m]
       ELSE Done(f_rename(FatMounted(m),
                          fatfsjs_build_ff_path(old_path).ff,
                          fatfsjs_build_ff_path(new_path).ff))

fatfsjs_storage_size(m) == m.g_total_bytes

fatfsjs_export_image(m, buffer_ptr, buffer_len) ==
    IF m.g_storage = NullFatStorage \/ m.g_total_bytes = 0
    THEN [res |-> FATFSJS_ERR_INVAL, image |-> NullFatImage]
    ELSE IF buffer_ptr = 0 \/ buffer_len < m.g_total_bytes
    THEN [res |-> FATFSJS_ERR_NOSPC, image |-> NullFatImage]
    ELSE [res |-> m.g_total_bytes,
          image |-> [len |-> m.g_total_bytes, bytes |-> m.g_storage]]
---------------------------------------------------------------------------
(* FatFSClient (src/ts/index.ts) *)

FATFS_ERR_NOT_ENOUGH_CORE == -17
FAT_MOUNT == <<"fatfs">>

\* split at the separators, drop the empty segments
normalizePublicPath(value) == SelectSeq(value, LAMBDA s : s # "")

normalizeFatfsPath(input) ==
    LET Mounted(normalized) ==
            IF normalized = <<>> \/ normalized = FAT_MOUNT THEN FAT_MOUNT
            ELSE IF Head(normalized) = Head(FAT_MOUNT) THEN normalized
            ELSE FAT_MOUNT \o normalized
    IN Mounted(normalizePublicPath(input))

toWasmPath(input) == Tail(normalizeFatfsPath(input))

publicFatfsPath(wasmPath) == FAT_MOUNT \o wasmPath

\* a client call either returns a value or throws FatFSError(code)
FatThrown(code, m) == [ok |-> FALSE, code |-> code, value |-> <<>>, m |-> m]
FatReturned(value, m) == [ok |-> TRUE, code |-> 0, value |-> value, m |-> m]

FatFSClient_format(m) ==
    LET Done(r) == IF r.err < 0 THEN FatThrown(r.err, r.m)
                   ELSE FatReturned(<<>>, r.m)
    IN Done(fatfsjs_format(m))

RECURSIVE FatFSClient_list(_, _, _)
FatFSClient_list(m, path, capacity) ==
    LET Done(r) ==
            IF r.res = FATFS_ERR_NOT_ENOUGH_CORE
            THEN FatFSClient_list(m, path, capacity * 2)
            ELSE IF r.res < 0 THEN FatThrown(r.res, m)
            ELSE IF r.res = 0 THEN FatReturned(<<>>, m)
            ELSE FatReturned(
                     [i \in 1..Len(r.out) |->
                        [path |-> publicFatfsPath(r.out[i].path),
                         size |-> r.out[i].size,
                         type |-> IF r.out[i].type = "d" THEN "dir"
                                  ELSE "file"]], m)
    IN Done(fatfsjs_list(m, toWasmPath(path), 1, capacity))

FatFSClient_mkdir(m, path) ==
    LET Done(r) == IF r.res < 0 THEN FatThrown(r.res, r.m)
                   ELSE FatReturned(<<>>, r.m)
    IN Done(fatfsjs_mkdir(m, toWasmPath(normalizeFatfsPath(path))))

FatFSClient_rename(m, oldPath, newPath) ==
    LET Done(r) == IF r.res < 0 THEN FatThrown(r.res, r.m)
                   ELSE FatReturned(<<>>, r.m)
    IN Done(fatfsjs_rename(m, toWasmPath(normalizeFatfsPath(oldPath)),
                           toWasmPath(normalizeFatfsPath(newPath))))

FatFSClient_readFile(m, path) ==
    LET Read(wasmPath, size) ==
            IF size < 0 THEN FatThrown(size, m)
            ELSE IF size = 0 THEN FatReturned(NoData, m)
            ELSE LET Done(r) ==
                         IF r.res < 0 THEN FatThrown(r.res, m)
                         ELSE FatReturned([r.buf EXCEPT !.len = size], m)
                 IN Done(fatfsjs_read_file(m, wasmPath, 1, size))
        At(wasmPath) == Read(wasmPath, fatfsjs_file_size(m, wasmPath))
    IN At(toWasmPath(normalizeFatfsPath(path)))

FatFSClient_writeFile(m, path, payload) ==
    LET Done(r) == IF r.res < 0 THEN FatThrown(r.res, r.m)
                   ELSE FatReturned(<<>>, r.m)
    IN Done(fatfsjs_write_file(
                m, toWasmPath(normalizeFatfsPath(path)),
                [ptr |-> IF payload.len > 0 THEN 1 ELSE 0,
                 tag |-> payload.tag],
                payload.len))

FatFSClient_deleteFile(m, path) ==
    LET Done(r) == IF r.res < 0 THEN FatThrown(r.res, r.m)
                   ELSE FatReturned(<<>>, r.m)
    IN Done(fatfsjs_delete_file(m, toWasmPath(normalizeFatfsPath(path))))

FatFSClient_toImage(m) ==
    LET Done(r) == IF r.res < 0 THEN FatThrown(r.res, m)
                   ELSE FatReturned(r.image, m)
    IN IF fatfsjs_storage_size(m) = 0 THEN FatReturned(NullFatImage, m)
       ELSE Done(fatfsjs_export_image(m, 1, fatfsjs_storage_size(m)))

FatFSClient_ensureStorageSize(m) ==
    IF fatfsjs_storage_size(m) > 0 THEN fatfsjs_storage_size(m) ELSE 0

\* entries.reduce over the listing of the mount root
RECURSIVE FatReduce(_, _)
FatReduce(entries, acc) ==
    IF entries = <<>> THEN acc
    ELSE FatReduce(Tail(entries),
                   IF Head(entries).type = "file"
                   THEN acc + Head(entries).size ELSE acc)

\* getUsage reporting the whole capacity as free
FatFSClient_getUsage_NoSubtract(m) ==
    LET Usage(capacityBytes, usedBytes) ==
            [capacityBytes |-> capacityBytes,
             usedBytes |-> usedBytes,
             freeBytes |-> capacityBytes]
        Done(capacityBytes, entries) ==
            IF ~entries.ok THEN entries
            ELSE FatReturned(
                     Usage(capacityBytes, FatReduce(entries.value, 0)), m)
    IN Done(FatFSClient_ensureStorageSize(m),
            FatFSClient_list(m, FAT_MOUNT, INITIAL_LIST_BUFFER))

FatFSClient_getUsage(m) ==
    LET Usage(capacityBytes, usedBytes) ==
            [capacityBytes |-> capacityBytes,
             usedBytes |-> usedBytes,
             freeBytes |-> IF capacityBytes > usedBytes
                           THEN capacityBytes - usedBytes ELSE 0]
        Done(capacityBytes, entries) ==
            IF ~entries.ok THEN entries
            ELSE FatReturned(
                     Usage(capacityBytes, FatReduce(entries.value, 0)), m)
    IN Done(FatFSClient_ensureStorageSize(m),
            FatFSClient_list(m, FAT_MOUNT, INITIAL_LIST_BUFFER))
---------------------------------------------------------------------------
(* The calls a FatFS application makes *)

\* calls that may change the module, per run
MaxFatOps == 4

\* sectors of the images that come from outside
FatImageSectors == 192

FatGeometries == { <<4096, 192>>, <<4096, 64>>, <<512, 1024>> }

\* nothing, less than a sector, several sectors
FatPayloads ==
    { NoData, [len |-> 9, tag |-> "x"], [len |-> 30000, tag |-> "y"] }

FatSeedTree ==
    { [path |-> <<"a">>, dir |-> FALSE, size |-> 9, tag |-> "x"] }
\* the same with a file that leaves four clusters free
FatFullTree ==
    FatSeedTree \cup
    { [path |-> <<"b">>, dir |-> FALSE,
       size |-> (FatImageSectors - FF_SYSTEM_SECTORS - 5)
                * FATFSJS_SECTOR_SIZE,
       tag |-> "z"] }
FatJunkTree ==
    { [path |-> <<"j">>, dir |-> FALSE, size |-> 5, tag |-> "?"] }

\* images made by other tools: a nearly full volume that starts at sector 0,
\* one that starts at sector 1 behind an erased sector, one that starts at
\* sector 1 behind a copy of its boot record, one whose length is no
\* multiple of the sector size
FatExternalImages ==
    { [len |-> FatImageSectors * FATFSJS_SECTOR_SIZE,
       bytes |-> [s0 |-> "vbr", s1 |-> "data", at |-> 0,
                  vol |-> [tree |-> FatFullTree,
                           clusters |-> FatImageSectors - FF_SYSTEM_SECTORS],
                  stale |-> NoVolume]],
      [len |-> FatImageSectors * FATFSJS_SECTOR_SIZE,
       bytes |-> [s0 |-> "erased", s1 |-> "vbr", at |-> 1,
                  vol |-> [tree |-> FatSeedTree,
                           clusters |->
                               FatImageSectors - 1 - FF_SYSTEM_SECTORS],
                  stale |-> NoVolume]],
      [len |-> FatImageSectors * FATFSJS_SECTOR_SIZE,
       bytes |-> [s0 |-> "vbr", s1 |-> "vbr", at |-> 1,
                  vol |-> [tree |-> FatSeedTree,
                           clusters |->
                               FatImageSectors - 1 - FF_SYSTEM_SECTORS],
                  stale |-> [tree |-> FatJunkTree,
                             clusters |->
                                 FatImageSectors - FF_SYSTEM_SECTORS]]],
      [len |-> FATFSJS_SECTOR_SIZE + 1, bytes |-> ErasedFatStorage] }

FatWritePaths == { <<"a">>, <<"fatfs", "d", "b">>, <<"d", "e", "b">> }
FatDirPaths == { <<"d">> }
FatRenames ==
    { << <<"a">>, <<"d", "a">> >>, << <<"d", "b">>, <<"a">> >>,
      << <<"d">>, <<"e">> >>, << <<"a">>, <<"a">> >> }
FatReadPaths == { <<"a">>, <<"d", "a">>, <<"d", "b">>, <<"d">> }
FatListPaths == { FAT_MOUNT, <<"d">>, <<"a">> }

\* the record of a call: out is what it returned and pre what the client
\* observed before it, each as <<kind, value>>
FatCall(op, path, to, r) ==
    [op |-> op, path |-> path, to |-> to, ok |-> r.ok, code |-> r.code,
     out |-> <<IF r.ok THEN op ELSE "error", r.value>>,
     pre |-> <<"none", <<>>>>]

FatInit ==
    /\ fat = FatReleased
    /\ fatLast = FatCall("none", <<>>, <<>>, FatReturned(<<>>, FatReleased))
    /\ fatImage = NullFatImage
    /\ fatOps = 0

\* a call of the FatFS module leaves the other modules alone
SpIdle == UNCHANGED <<spVars, lfsVars, halVars, fat7Vars, roVars>>

\* the client of the FatFS module runs while no call of another module has
\* been made
FatDrives == spLast.op = "none" /\ lfsLast.op = "none" /\ spClient = "app"

\* the module runs one call at a time; a call that never returns blocks it
FatStep ==
    /\ FatDrives
    /\ ~fat.stuck
    /\ fatOps < MaxFatOps
    /\ fatOps' = fatOps + 1
    /\ SpIdle
FatQuery ==
    /\ FatDrives
    /\ ~fat.stuck
    /\ UNCHANGED <<fat, fatOps>>
    /\ SpIdle

\* createFatFS: fatfsjs_init with the geometry of the options
FatCreate ==
    \E g \in FatGeometries :
    \E r \in { fatfsjs_init(fat, g[1], g[2]) } :
       /\ FatStep
       /\ fat' = r.m
       /\ fatLast' = [FatCall("init", <<>>, <<>>,
                              IF r.err < 0 THEN FatThrown(r.err, r.m)
                              ELSE FatReturned(<<>>, r.m))
                        EXCEPT !.pre = <<"geometry", g>>]
       /\ UNCHANGED fatImage

FatCreateFromImage ==
    \E image \in FatExternalImages \cup {fatImage} :
    \E r \in { fatfsjs_init_from_image(fat, image, image.len) } :
       /\ FatStep
       /\ fat' = r.m
       /\ fatLast' = FatCall("init_from_image", <<>>, <<>>,
                             IF r.err < 0 THEN FatThrown(r.err, r.m)
                             ELSE FatReturned(<<>>, r.m))
       /\ UNCHANGED fatImage

FatFormat ==
    \E r \in { FatFSClient_format(fat) } :
       /\ FatStep
       /\ fat' = r.m
       /\ fatLast' = [FatCall("format", <<>>, <<>>, r) EXCEPT
                        !.pre = <<"listing",
                                  FatFSClient_list(fat, FAT_MOUNT,
                                      INITIAL_LIST_BUFFER).value>>]
       /\ UNCHANGED fatImage

FatList ==
    \E path \in FatListPaths :
       /\ FatQuery
       /\ fatLast' = FatCall("list", path, <<>>,
                             FatFSClient_list(fat, path, INITIAL_LIST_BUFFER))
       /\ UNCHANGED fatImage

FatMkdir ==
    \E path \in FatDirPaths :
    \E r \in { FatFSClient_mkdir(fat, path) } :
       /\ FatStep
       /\ fat' = r.m
       /\ fatLast' = FatCall("mkdir", path, <<>>, r)
       /\ UNCHANGED fatImage

\* what a read returned, or that there was nothing to read
FatContent(r) == <<IF r.ok THEN "content" ELSE "nothing", r.value>>

FatRename ==
    \E p \in FatRenames :
    \E r \in { FatFSClient_rename(fat, p[1], p[2]) } :
       /\ FatStep
       /\ fat' = r.m
       /\ fatLast' = [FatCall("rename", p[1], p[2], r) EXCEPT
                        !.pre = FatContent(FatFSClient_readFile(fat, p[1]))]
       /\ UNCHANGED fatImage

FatReadFile ==
    \E path \in FatReadPaths :
       /\ FatQuery
       /\ fatLast' = FatCall("readFile", path, <<>>,
                             FatFSClient_readFile(fat, path))
       /\ UNCHANGED fatImage

FatWriteFile ==
    \E path \in FatWritePaths, payload \in FatPayloads :
    \E r \in { FatFSClient_writeFile(fat, path, payload) } :
       /\ FatStep
       /\ fat' = r.m
       /\ fatLast' = [FatCall("writeFile", path, <<>>, r) EXCEPT
                        !.pre = <<"payload", payload>>]
       /\ UNCHANGED fatImage

FatDeleteFile ==
    \E path \in FatReadPaths :
    \E r \in { FatFSClient_deleteFile(fat, path) } :
       /\ FatStep
       /\ fat' = r.m
       /\ fatLast' = FatCall("deleteFile", path, <<>>, r)
       /\ UNCHANGED fatImage

FatToImage ==
    \E r \in { FatFSClient_toImage(fat) } :
       /\ FatQuery
       /\ fatLast' = FatCall("toImage", <<>>, <<>>, r)
       /\ fatImage' = IF r.ok THEN r.value ELSE fatImage

FatGetUsage ==
    /\ FatQuery
    /\ fatLast' = FatCall("getUsage", <<>>, <<>>, FatFSClient_getUsage(fat))
    /\ UNCHANGED fatImage

FatNext ==
    \/ FatCreate
    \/ FatCreateFromImage
    \/ FatFormat
    \/ FatList
    \/ FatMkdir
    \/ FatRename
    \/ FatReadFile
    \/ FatWriteFile
    \/ FatDeleteFile
    \/ FatToImage
    \/ FatGetUsage

---------------------------------------------------------------------------
(* Part III  littlefs binding (littlefs_wasm.c).  littlefs itself (lfs.c)
   is vendored; a volume is modelled as the geometry its superblock
   records and a directory tree, behind the documented behaviour of the
   lfs_* calls the binding makes. *)

LFSJS_PATH_MAX == 512

LFS_ERR_IO == -5
LFS_ERR_CORRUPT == -84
LFS_ERR_NOENT == -2
LFS_ERR_ISDIR == -21
LFS_ERR_NOTEMPTY == -39
LFS_ERR_INVAL == -22
LFS_ERR_NOSPC == -28
LFS_ERR_NOMEM == -12
LFS_ERR_NAMETOOLONG == -36

\* the names of the model's volumes, in the order lfs_dir_read returns the
\* entries of a directory
LfsNames == <<"docs", "notes", "readme.txt">>

\* g_storage: the bytes malloc gave (len of them) and what they hold: the
\* erased pattern, a littlefs volume with the geometry of its superblock,
\* or anything else
LfsNullStorage ==
    [len |-> 0, kind |-> "null", block_size |-> 0, block_count |-> 0,
     tree |-> {}]

LfsErased(len) == [LfsNullStorage EXCEPT !.len = len, !.kind = "erased"]

LfsIsDir(tree, p) == p = <<>> \/ \E e \in tree : e.path = p /\ e.dir

LfsExists(tree, p) == p = <<>> \/ \E e \in tree : e.path = p

LfsEntry(tree, p) == CHOOSE e \in tree : e.path = p

\* blocks a volume uses: a metadata pair for the root and for every
\* directory, and the blocks of every file that is not stored inline
LfsBlocksOf(e, block_size) ==
    IF e.dir THEN 2
    ELSE IF e.size <= block_size \div 8 THEN 0
    ELSE (e.size + block_size - 1) \div block_size

RECURSIVE LfsUsedBlocks(_, _)
LfsUsedBlocks(tree, block_size) ==
    IF tree = {} THEN 2
    ELSE LET e == CHOOSE x \in tree : TRUE
         IN LfsBlocksOf(e, block_size)
            + LfsUsedBlocks(tree \ {e}, block_size)

\* lfs_mount: the superblock must be there and must record the geometry of
\* the configuration
lfs_mount(st, cfg) ==
    IF st.kind # "lfs" THEN LFS_ERR_CORRUPT
    ELSE IF st.block_size # cfg.block_size
            \/ st.block_count # cfg.block_count
    THEN LFS_ERR_INVAL
    ELSE 0

\* lfs_format: writes an empty volume of the configured geometry; the
\* root's metadata pair needs two blocks
lfs_format(st, cfg) ==
    IF cfg.block_count < 2 THEN [err |-> LFS_ERR_NOSPC, st |-> st]
    ELSE [err |-> 0,
          st |-> [st EXCEPT !.kind = "lfs",
                            !.block_size = cfg.block_size,
                            !.block_count = cfg.block_count,
                            !.tree = {}]]

\* lfs_stat
lfs_stat(tree, p) ==
    IF ~LfsExists(tree, p)
    THEN [err |-> LFS_ERR_NOENT, dir |-> FALSE, size |-> 0]
    ELSE IF LfsIsDir(tree, p)
    THEN [err |-> 0, dir |-> TRUE, size |-> 0]
    ELSE [err |-> 0, dir |-> FALSE, size |-> LfsEntry(tree, p).size]

\* lfs_file_open with LFS_O_WRONLY | LFS_O_CREAT | LFS_O_TRUNC: a missing
\* file is created empty at once, the truncation of an existing one
\* reaches the volume when the file is closed
lfs_file_open(st, p) ==
    IF p = <<>> \/ LfsIsDir(st.tree, p) THEN [err |-> LFS_ERR_ISDIR, st |-> st]
    ELSE IF ~LfsIsDir(st.tree, SubSeq(p, 1, Len(p) - 1))
    THEN [err |-> LFS_ERR_NOENT, st |-> st]
    ELSE IF LfsExists(st.tree, p) THEN [err |-> 0, st |-> st]
    ELSE [err |-> 0,
          st |-> [st EXCEPT !.tree = @ \cup
                     {[path |-> p, dir |-> FALSE, size |-> 0, tag |-> ""]}]]

\* lfs_file_write of size bytes to the truncated file p: all of them, or
\* LFS_ERR_NOSPC when the volume has not the blocks for them
lfs_file_write(st, p, size) ==
    LET grown == { IF e.path = p THEN [e EXCEPT !.size = size] ELSE e
                   : e \in st.tree }
    IN IF LfsUsedBlocks(grown, st.block_size) > st.block_count
       THEN LFS_ERR_NOSPC
       ELSE size

\* lfs_file_close after the file was opened as above and tag/size written
\* to it without error: the file holds what was written
lfs_file_close(st, p, tag, size) ==
    [st EXCEPT !.tree = { IF e.path = p
                          THEN [e EXCEPT !.size = size, !.tag = tag]
                          ELSE e : e \in @ }]

\* lfs_remove
lfs_remove(st, p) ==
    IF p = <<>> THEN [err |-> LFS_ERR_INVAL, st |-> st]
    ELSE IF ~LfsExists(st.tree, p) THEN [err |-> LFS_ERR_NOENT, st |-> st]
    ELSE IF \E e \in st.tree : Len(e.path) > Len(p)
                                 /\ SubSeq(e.path, 1, Len(p)) = p
    THEN [err |-> LFS_ERR_NOTEMPTY, st |-> st]
    ELSE [err |-> 0,
          st |-> [st EXCEPT !.tree = { e \in @ : e.path # p }]]

\* the globals after instantiation
LfsReleased ==
    [g_cfg |-> [block_size |-> 0, block_count |-> 0],
     g_storage |-> LfsNullStorage,
     g_is_mounted |-> FALSE]

\* what an exported function returns: its result, the globals it leaves
\* and the lfs_* calls that may fail it made, each with its result
LfsRet(err, m, calls) == [err |-> err, m |-> m, calls |-> calls]

lfsjs_release(m) ==
    [m EXCEPT !.g_is_mounted = FALSE, !.g_storage = LfsNullStorage]

lfsjs_total_bytes(cfg) == cfg.block_size * cfg.block_count

\* malloc returns the storage or NULL: has_memory
lfsjs_configure(m, block_size, block_count, has_memory) ==
    IF block_size = 0 \/ block_count = 0 THEN [err |-> LFS_ERR_INVAL, m |-> m]
    ELSE LET cfg == [block_size |-> block_size, block_count |-> block_count]
         IN IF ~has_memory
            THEN [err |-> LFS_ERR_NOMEM,
                  m |-> [lfsjs_release(m) EXCEPT !.g_cfg = cfg]]
            ELSE [err |-> 0,
                  m |-> [lfsjs_release(m) EXCEPT
                           !.g_cfg = cfg,
                           !.g_storage =
                               LfsErased(lfsjs_total_bytes(cfg))]]

lfsjs_mount_internal(m, allow_format) ==
    LET first == lfs_mount(m.g_storage, m.g_cfg)
        Mounted(err, mm, calls) ==
            LfsRet(err, [mm EXCEPT !.g_is_mounted = (err = 0)], calls)
        Formatted(f) ==
            IF f.err # 0
            THEN LfsRet(f.err, [m EXCEPT !.g_is_mounted = FALSE],
                        <<<<"lfs_mount", first>>, <<"lfs_format", f.err>>>>)
            ELSE Mounted(lfs_mount(f.st, m.g_cfg),
                         [m EXCEPT !.g_storage = f.st],
                         <<<<"lfs_mount", first>>, <<"lfs_format", 0>>,
                           <<"lfs_mount", lfs_mount(f.st, m.g_cfg)>>>>)
    IN IF first # 0 /\ allow_format
       THEN Formatted(lfs_format(m.g_storage, m.g_cfg))
       ELSE Mounted(first, m, <<<<"lfs_mount", first>>>>)

lfsjs_ensure_mounted(m) == IF ~m.g_is_mounted THEN LFS_ERR_INVAL ELSE 0

lfsjs_init(m, block_size, block_count, has_memory) ==
    LET Configured(c) ==
            IF c.err # 0 THEN LfsRet(c.err, c.m, <<>>)
            ELSE LET Tried(r) ==
                         IF r.err # 0
                         THEN LfsRet(r.err, lfsjs_release(r.m), r.calls)
                         ELSE r
                 IN Tried(lfsjs_mount_internal(c.m, TRUE))
    IN Configured(lfsjs_configure(m, block_size, block_count, has_memory))

\* an import that mounts the way lfsjs_init does: a failed mount formats
lfsjs_init_from_image_formats(m, block_size, block_count, has_memory, image, image_len) ==
    LET Configured(c) ==
            IF c.err # 0 THEN LfsRet(c.err, c.m, <<>>)
            ELSE IF image.kind = "null"
                    \/ image_len # lfsjs_total_bytes(c.m.g_cfg)
            THEN LfsRet(LFS_ERR_INVAL, lfsjs_release(c.m), <<>>)
            ELSE LET Tried(r) ==
                         IF r.err # 0
                         THEN LfsRet(r.err, lfsjs_release(r.m), r.calls)
                         ELSE r
                 IN Tried(lfsjs_mount_internal(
                             [c.m EXCEPT !.g_storage = image], TRUE))
    IN Configured(lfsjs_configure(m, block_size, block_count, has_memory))

\* an image is the bytes the caller passes: image_len of them holding what
\* a storage holds; the null pointer is LfsNullStorage
lfsjs_init_from_image(m, block_size, block_count, has_memory, image, image_len) ==
    LET Configured(c) ==
            IF c.err # 0 THEN LfsRet(c.err, c.m, <<>>)
            ELSE IF image.kind = "null"
                    \/ image_len # lfsjs_total_bytes(c.m.g_cfg)
            THEN LfsRet(LFS_ERR_INVAL, lfsjs_release(c.m), <<>>)
            ELSE LET copied == [c.m EXCEPT !.g_storage = image]
                     err == lfs_mount(image, c.m.g_cfg)
                 IN IF err # 0
                    THEN LfsRet(err, lfsjs_release(copied),
                                <<<<"lfs_mount", err>>>>)
                    ELSE LfsRet(0, [copied EXCEPT !.g_is_mounted = TRUE],
                                <<<<"lfs_mount", 0>>>>)
    IN Configured(lfsjs_configure(m, block_size, block_count, has_memory))

lfsjs_format(m) ==
    IF lfsjs_ensure_mounted(m) # 0
    THEN LfsRet(lfsjs_ensure_mounted(m), m, <<>>)
    ELSE LET Formatted(f) ==
                 IF f.err # 0
                 THEN LfsRet(f.err, [m EXCEPT !.g_is_mounted = FALSE],
                             <<<<"lfs_format", f.err>>>>)
                 ELSE LET Again(r) ==
                              LfsRet(r.err, r.m,
                                     <<<<"lfs_format", 0>>>> \o r.calls)
                      IN Again(lfsjs_mount_internal(
                                  [m EXCEPT !.g_is_mounted = FALSE,
                                            !.g_storage = f.st], FALSE))
         IN Formatted(lfs_format(m.g_storage, m.g_cfg))

\* data is what the caller passes: a tag that stands for the bytes; the
\* null pointer is ""
lfsjs_add_file(m, path, data, length) ==
    IF lfsjs_ensure_mounted(m) # 0
    THEN LfsRet(lfsjs_ensure_mounted(m), m, <<>>)
    ELSE LET Opened(o) ==
                 IF o.err < 0 THEN LfsRet(o.err, m, <<>>)
                 ELSE IF length > 0 /\ data # ""
                 THEN LET written == lfs_file_write(o.st, path, length)
                      IN IF written < 0
                         THEN LfsRet(written,
                                     [m EXCEPT !.g_storage = o.st], <<>>)
                         ELSE IF written # length
                         THEN LfsRet(LFS_ERR_IO,
                                     [m EXCEPT !.g_storage = o.st], <<>>)
                         ELSE LfsRet(0,
                                [m EXCEPT !.g_storage =
                                    lfs_file_close(o.st, path, data, length)],
                                <<>>)
                 ELSE LfsRet(0, [m EXCEPT !.g_storage =
                                     lfs_file_close(o.st, path, "", 0)],
                             <<>>)
         IN Opened(lfs_file_open(m.g_storage, path))

lfsjs_delete_file(m, path) ==
    IF lfsjs_ensure_mounted(m) # 0
    THEN LfsRet(lfsjs_ensure_mounted(m), m, <<>>)
    ELSE LET Removed(r) ==
                 LfsRet(r.err, [m EXCEPT !.g_storage = r.st], <<>>)
         IN Removed(lfs_remove(m.g_storage, path))

\* characters of the path "/name/name..."; the root is "/"
RECURSIVE LfsPathChars(_)
LfsPathChars(p) ==
    IF p = <<>> THEN 0 ELSE Len(Head(p)) + 1 + LfsPathChars(Tail(p))

\* one line "path \t size \n" written at the cursor, the path without its
\* leading separator
lfsjs_emit_file(path, size, cursor, end) ==
    LET needed == (LfsPathChars(path) - 1) + 1 + DecimalDigits(size) + 1
    IN IF cursor + needed + 1 > end
       THEN [err |-> LFS_ERR_NOSPC, out |-> <<>>, cursor |-> cursor]
       ELSE [err |-> 0, out |-> <<[path |-> path, size |-> size]>>,
             cursor |-> cursor + needed]

lfsjs_join_path(base, leaf, out_len) ==
    IF LfsPathChars(Append(base, leaf)) >= out_len
    THEN [err |-> LFS_ERR_NAMETOOLONG, path |-> base]
    ELSE [err |-> 0, path |-> Append(base, leaf)]

\* lfs_dir_open of the root or of a directory lfs_dir_read returned
lfs_dir_open(tree, p) == IF LfsIsDir(tree, p) THEN 0 ELSE LFS_ERR_NOENT

RECURSIVE lfsjs_walk(_, _, _, _)
RECURSIVE LfsDirRead(_, _, _, _, _)
\* the lfs_dir_read loop of lfsjs_walk from the i-th name on: a directory
\* is walked, a regular file is emitted
LfsDirRead(tree, dir, i, cursor, end) ==
    IF i > Len(LfsNames) THEN [err |-> 0, out |-> <<>>, cursor |-> cursor]
    ELSE LET Rest(r) ==
                 IF r.err # 0 THEN r
                 ELSE LET More(n) ==
                              [err |-> n.err, out |-> r.out \o n.out,
                               cursor |-> n.cursor]
                      IN More(LfsDirRead(tree, dir, i + 1, r.cursor, end))
             Visit(j) ==
                 IF ~LfsExists(tree, Append(dir, LfsNames[i]))
                 THEN Rest([err |-> 0, out |-> <<>>, cursor |-> cursor])
                 ELSE IF j.err # 0
                 THEN [err |-> j.err, out |-> <<>>, cursor |-> cursor]
                 ELSE IF LfsEntry(tree, j.path).dir
                 THEN Rest(lfsjs_walk(tree, j.path, cursor, end))
                 ELSE Rest(lfsjs_emit_file(
                              j.path, LfsEntry(tree, j.path).size,
                              cursor, end))
         IN Visit(lfsjs_join_path(dir, LfsNames[i], LFSJS_PATH_MAX))

lfsjs_walk(tree, dir, cursor, end) ==
    IF lfs_dir_open(tree, dir) < 0
    THEN [err |-> lfs_dir_open(tree, dir), out |-> <<>>, cursor |-> cursor]
    ELSE LfsDirRead(tree, dir, 1, cursor, end)

\* the result is the number of characters written, out the lines
lfsjs_list(m, buffer_ptr, buffer_len) ==
    IF lfsjs_ensure_mounted(m) # 0
    THEN [res |-> lfsjs_ensure_mounted(m), out |-> <<>>]
    ELSE IF buffer_ptr = 0 \/ buffer_len = 0
    THEN [res |-> LFS_ERR_INVAL, out |-> <<>>]
    ELSE LET Walked(w) ==
                 IF w.err # 0 THEN [res |-> w.err, out |-> <<>>]
                 ELSE [res |-> w.cursor, out |-> w.out]
         IN Walked(lfsjs_walk(m.g_storage.tree, <<>>, 0, buffer_len))

lfsjs_stat(m, path) == lfs_stat(m.g_storage.tree, path)

lfsjs_file_size(m, path) ==
    IF lfsjs_ensure_mounted(m) # 0 THEN lfsjs_ensure_mounted(m)
    ELSE IF lfsjs_stat(m, path).err # 0 THEN lfsjs_stat(m, path).err
    ELSE IF lfsjs_stat(m, path).dir THEN LFS_ERR_ISDIR
    ELSE lfsjs_stat(m, path).size

---------------------------------------------------------------------------
(* Calls of a program that drives the littlefs binding *)

MaxLfsOps == 4

\* block_size, block_count
LfsGeometries == { <<0, 4>>, <<512, 1>>, <<512, 4>>, <<256, 8>> }

LfsVolume(len, block_size, block_count, tree) ==
    [len |-> len, kind |-> "lfs", block_size |-> block_size,
     block_count |-> block_count, tree |-> tree]

\* a volume another tool built: a directory with a file in it, an empty
\* directory and a file in the root
LfsDocsTree ==
    { [path |-> <<"docs">>, dir |-> TRUE, size |-> 0, tag |-> ""],
      [path |-> <<"docs", "readme.txt">>, dir |-> FALSE, size |-> 12,
       tag |-> "readme"],
      [path |-> <<"notes">>, dir |-> TRUE, size |-> 0, tag |-> ""],
      [path |-> <<"readme.txt">>, dir |-> FALSE, size |-> 5,
       tag |-> "hello"] }

\* images a caller may pass: no image, erased flash, volumes of 512 x 4
\* blocks with and without directories, and one of 512 x 2 blocks
LfsExternalImages ==
    { LfsNullStorage,
      LfsErased(2048),
      LfsVolume(2048, 512, 4, LfsDocsTree),
      LfsVolume(2048, 512, 4, {}),
      LfsVolume(1024, 512, 2, {}) }

\* tag and length of the data of lfsjs_add_file
LfsPayloads == { <<"", 0>>, <<"hello", 5>>, <<"big", 1500>> }

LfsWritePaths == { <<"readme.txt">>, <<"docs", "readme.txt">>, <<"docs">> }
LfsListBuffers == { 0, 8, 4096 }

LfsCall(op, path, r, pre) ==
    [op |-> op, path |-> path, err |-> r.err, out |-> <<>>,
     calls |-> r.calls, pre |-> pre]

LfsModuleInit ==
    /\ lfs = LfsReleased
    /\ lfsLast = LfsCall("none", <<>>, LfsRet(0, LfsReleased, <<>>),
                         LfsReleased)
    /\ lfsOps = 0

\* the client of the littlefs module runs while no call of another module
\* has been made
LfsDrives == spLast.op = "none" /\ fatLast.op = "none" /\ spClient = "app"

LfsStep ==
    /\ LfsDrives
    /\ lfsOps < MaxLfsOps
    /\ lfsOps' = lfsOps + 1
    /\ UNCHANGED <<spVars, fatVars, halVars, fat7Vars, roVars>>
LfsQuery ==
    /\ LfsDrives
    /\ UNCHANGED <<lfs, lfsOps>>
    /\ UNCHANGED <<spVars, fatVars, halVars, fat7Vars, roVars>>

LfsInit ==
    \E g \in LfsGeometries, has_memory \in BOOLEAN :
    \E r \in { lfsjs_init(lfs, g[1], g[2], has_memory) } :
       /\ LfsStep
       /\ lfs' = r.m
       /\ lfsLast' = LfsCall("init", <<>>, r, lfs)

LfsInitFromImage ==
    \E g \in LfsGeometries, has_memory \in BOOLEAN,
       image \in LfsExternalImages :
    \E r \in { lfsjs_init_from_image(lfs, g[1], g[2], has_memory,
                                     image, image.len) } :
       /\ LfsStep
       /\ lfs' = r.m
       /\ lfsLast' = LfsCall("init_from_image", <<>>, r, lfs)

LfsFormat ==
    \E r \in { lfsjs_format(lfs) } :
       /\ LfsStep
       /\ lfs' = r.m
       /\ lfsLast' = LfsCall("format", <<>>, r, lfs)

LfsAddFile ==
    \E path \in LfsWritePaths, data \in LfsPayloads :
    \E r \in { lfsjs_add_file(lfs, path, data[1], data[2]) } :
       /\ LfsStep
       /\ lfs' = r.m
       /\ lfsLast' = LfsCall("add_file", path, r, lfs)

LfsDeleteFile ==
    \E path \in LfsWritePaths :
    \E r \in { lfsjs_delete_file(lfs, path) } :
       /\ LfsStep
       /\ lfs' = r.m
       /\ lfsLast' = LfsCall("delete_file", path, r, lfs)

LfsList ==
    \E buffer_len \in LfsListBuffers :
    \E r \in { lfsjs_list(lfs, 1, buffer_len) } :
       /\ LfsQuery
       /\ lfsLast' = [LfsCall("list", <<>>,
                              LfsRet(r.res, lfs, <<>>), lfs)
                        EXCEPT !.out = r.out]

LfsFileSize ==
    \E path \in LfsWritePaths :
       /\ LfsQuery
       /\ lfsLast' = LfsCall("file_size", path,
                             LfsRet(lfsjs_file_size(lfs, path), lfs, <<>>),
                             lfs)

LfsNext ==
    \/ LfsInit
    \/ LfsInitFromImage
    \/ LfsFormat
    \/ LfsAddFile
    \/ LfsDeleteFile
    \/ LfsList
    \/ LfsFileSize

---------------------------------------------------------------------------
(* Part IV  The RAM block device under the file systems, byte by byte: the
   callbacks spiffsjs_hal_read/_write/_erase of spiffs_wasm.c and
   lfsjs_ram_read/_prog/_erase of littlefs_wasm.c on a backing store of a
   few bytes. *)

\* bytes of the backing store, and bytes of one erase block
HalTotalBytes == 3
HalBlockBytes == HalTotalBytes - HalTotalBytes \div 2

\* values a byte of flash or of a caller's buffer takes
HalByteValues == { 0, 15, 240, 255 }

\* bitwise AND of two bytes
RECURSIVE HalAnd(_, _, _)
HalAnd(a, b, bits) ==
    IF bits = 0 THEN 0
    ELSE (a % 2) * (b % 2) + 2 * HalAnd(a \div 2, b \div 2, bits - 1)

\* g_storage is the empty sequence while it is NULL
HalNoStorage == [g_storage |-> <<>>, g_total_bytes |-> 0]

\* malloc and the fill with the erased pattern of spiffsjs_configure and
\* of lfsjs_configure with lfsjs_fill_erased
HalAllocate(total_bytes) ==
    [g_storage |-> [i \in 1..total_bytes |-> 255],
     g_total_bytes |-> total_bytes]

\* memcpy(g_storage + idx, src, size)
HalMemcpy(storage, idx, src, size) ==
    [i \in 1..Len(storage) |->
        IF i > idx /\ i <= idx + size THEN src[i - idx] ELSE storage[i]]

\* memset(g_storage + idx, 0xFF, size)
HalMemset(storage, idx, size) ==
    [i \in 1..Len(storage) |->
        IF i > idx /\ i <= idx + size THEN 255 ELSE storage[i]]

\* a u32_t is kept as its two 16-bit halves <<high, low>>, so that sums
\* wrap at 2^32 as they do in C
U16 == 65536
u32_t(n) == <<n \div U16, n % U16>>
U32Add(a, b) ==
    <<(a[1] + b[1] + (a[2] + b[2]) \div U16) % U16, (a[2] + b[2]) % U16>>
\* a > n and a < n for a size_t n below 2^16
U32Gt(a, n) == a[1] > 0 \/ a[2] > n
U32Lt(a, n) == a[1] = 0 /\ a[2] < n

\* the bytes g_storage + addr .. g_storage + addr + size - 1 of a copy:
\* the offsets into the backing store, and how many of them lie outside
\* it (pointer arithmetic wraps at 2^32 as well)
HalInside(h, addr, size) ==
    { i \in 1..size : U32Lt(U32Add(addr, u32_t(i - 1)), h.g_total_bytes) }
HalOffset(addr, i) == U32Add(addr, u32_t(i - 1))[2] + 1
HalOutside(h, addr, size) == size - Cardinality(HalInside(h, addr, size))

\* memcpy(g_storage + addr, src, size) and memset(g_storage + addr, 0xFF,
\* size) on the bytes that lie in the backing store
HalStore(h, addr, size, src) ==
    [j \in 1..Len(h.g_storage) |->
        IF \E i \in HalInside(h, addr, size) : HalOffset(addr, i) = j
        THEN src[CHOOSE i \in HalInside(h, addr, size) :
                    HalOffset(addr, i) = j]
        ELSE h.g_storage[j]]

\* a bounds check on the sum taken as an unbounded integer
spiffsjs_hal_check_Unbounded(h, addr, size) ==
    h.g_storage = <<>>
        \/ addr[1] > 0 \/ size[1] > 0 \/ addr[2] + size[2] > h.g_total_bytes

\* !g_storage || addr + size > g_total_bytes, the sum a u32_t
spiffsjs_hal_check(h, addr, size) ==
    h.g_storage = <<>> \/ U32Gt(U32Add(addr, size), h.g_total_bytes)

\* addr and size are u32_t, size below 2^16; outside is the number of
\* bytes the copy touches outside the backing store, junk what a read
\* finds there
spiffsjs_hal_read(h, addr, size, junk) ==
    IF spiffsjs_hal_check(h, addr, size)
    THEN [res |-> SPIFFS_ERR_INTERNAL, dst |-> <<>>, outside |-> 0]
    ELSE [res |-> SPIFFS_OK,
          dst |-> [i \in 1..size[2] |->
                     IF i \in HalInside(h, addr, size[2])
                     THEN h.g_storage[HalOffset(addr, i)] ELSE junk],
          outside |-> HalOutside(h, addr, size[2])]

spiffsjs_hal_write(h, addr, size, src) ==
    IF spiffsjs_hal_check(h, addr, size)
    THEN [res |-> SPIFFS_ERR_INTERNAL, h |-> h, outside |-> 0]
    ELSE [res |-> SPIFFS_OK,
          h |-> [h EXCEPT !.g_storage = HalStore(h, addr, size[2], src)],
          outside |-> HalOutside(h, addr, size[2])]

spiffsjs_hal_erase(h, addr, size) ==
    IF spiffsjs_hal_check(h, addr, size)
    THEN [res |-> SPIFFS_ERR_INTERNAL, h |-> h, outside |-> 0]
    ELSE [res |-> SPIFFS_OK,
          h |-> [h EXCEPT !.g_storage =
                   HalStore(h, addr, size[2], [i \in 1..size[2] |-> 255])],
          outside |-> HalOutside(h, addr, size[2])]

\* c is the configuration: its block_size
lfsjs_ram_read(h, c, block, off, size) ==
    [res |-> 0,
     buffer |-> SubSeq(h.g_storage, block * c + off + 1,
                       block * c + off + size)]

lfsjs_ram_prog(h, c, block, off, buffer, size) ==
    [res |-> 0,
     h |-> [h EXCEPT !.g_storage = HalMemcpy(@, block * c + off, buffer, size)]]

lfsjs_ram_erase(h, c, block) ==
    [res |-> 0, h |-> [h EXCEPT !.g_storage = HalMemset(@, block * c, c)]]

HalCall(op, addr, size, src, res, pre) ==
    [op |-> op, addr |-> addr, size |-> size, src |-> src, res |-> res,
     pre |-> pre, dst |-> <<>>, high |-> 0, outside |-> 0]

HalInit ==
    /\ hal = HalNoStorage
    /\ halLast = HalCall("none", 0, 0, <<>>, 0, <<>>)

\* addresses and sizes the file system passes: spans inside the backing
\* store, and spans that end past it
HalSpans ==
    { s \in (0..HalTotalBytes) \X (0..HalBlockBytes) :
         s[1] + s[2] <= HalTotalBytes + 1 }

\* the same as u32_t, and addresses just below 2^32
HalSpans32 ==
    { <<u32_t(s[1]), u32_t(s[2])>> : s \in HalSpans }
        \cup { <<<<U16 - 1, U16 - d>>, u32_t(n)>> :
                 d \in 1..2, n \in 1..HalBlockBytes }

HalBuffers(size) == [1..size -> HalByteValues]

HalIdle == UNCHANGED <<spVars, fatVars, lfsVars, fat7Vars, roVars>>

HalConfigure ==
    /\ hal' = HalAllocate(HalTotalBytes)
    /\ halLast' = HalCall("configure", 0, HalTotalBytes, <<>>, 0,
                          hal.g_storage)
    /\ HalIdle

\* the address of a call is recorded as its halves high and addr
SpiffsHalRead ==
    \E s \in HalSpans32, junk \in {0, 255} :
    \E r \in { spiffsjs_hal_read(hal, s[1], s[2], junk) } :
       /\ halLast' = [HalCall("spiffs_read", s[1][2], s[2][2], <<>>, r.res,
                              hal.g_storage)
                        EXCEPT !.dst = r.dst, !.high = s[1][1],
                               !.outside = r.outside]
       /\ UNCHANGED hal
       /\ HalIdle

SpiffsHalWrite ==
    \E s \in HalSpans32 :
    \E src \in HalBuffers(s[2][2]) :
    \E r \in { spiffsjs_hal_write(hal, s[1], s[2], src) } :
       /\ hal' = r.h
       /\ halLast' = [HalCall("spiffs_write", s[1][2], s[2][2], src, r.res,
                              hal.g_storage)
                        EXCEPT !.high = s[1][1], !.outside = r.outside]
       /\ HalIdle

SpiffsHalErase ==
    \E s \in { x \in HalSpans32 : x[2][2] = HalBlockBytes } :
    \E r \in { spiffsjs_hal_erase(hal, s[1], s[2]) } :
       /\ hal' = r.h
       /\ halLast' = [HalCall("spiffs_erase", s[1][2], s[2][2], <<>>, r.res,
                              hal.g_storage)
                        EXCEPT !.high = s[1][1], !.outside = r.outside]
       /\ HalIdle

\* littlefs passes blocks and offsets inside the configured geometry, to a
\* mounted or mounting volume: the storage is allocated
LfsRamSpans ==
    { s \in HalSpans : s[1] + s[2] <= HalTotalBytes }

LfsRamRead ==
    /\ hal.g_storage # <<>>
    /\ \E s \in LfsRamSpans :
       \E r \in { lfsjs_ram_read(hal, HalBlockBytes, s[1] \div HalBlockBytes,
                                 s[1] % HalBlockBytes, s[2]) } :
          /\ halLast' = [HalCall("lfs_read", s[1], s[2], <<>>, r.res,
                                 hal.g_storage) EXCEPT !.dst = r.buffer]
          /\ UNCHANGED hal
          /\ HalIdle

LfsRamProg ==
    /\ hal.g_storage # <<>>
    /\ \E s \in LfsRamSpans :
       \E buffer \in HalBuffers(s[2]) :
       \E r \in { lfsjs_ram_prog(hal, HalBlockBytes, s[1] \div HalBlockBytes,
                                 s[1] % HalBlockBytes, buffer, s[2]) } :
          /\ hal' = r.h
          /\ halLast' = HalCall("lfs_prog", s[1], s[2], buffer, r.res,
                                hal.g_storage)
          /\ HalIdle

LfsRamErase ==
    /\ hal.g_storage # <<>>
    /\ \E block \in 0..(HalTotalBytes \div HalBlockBytes - 1) :
       \E r \in { lfsjs_ram_erase(hal, HalBlockBytes, block) } :
          /\ hal' = r.h
          /\ halLast' = HalCall("lfs_erase", block * HalBlockBytes,
                                HalBlockBytes, <<>>, r.res, hal.g_storage)
          /\ HalIdle

HalNext ==
    \/ HalConfigure
    \/ SpiffsHalRead
    \/ SpiffsHalWrite
    \/ SpiffsHalErase
    \/ LfsRamRead
    \/ LfsRamProg
    \/ LfsRamErase

---------------------------------------------------------------------------
(* Part V  the FatFS binding in the revision that takes a sector size
   (fatfs_wasm.c as of part_007, lines 1-539).  It hands the caller's
   path to FatFs as it is and reads and writes sectors without an offset.
   Its definitions carry the suffix _p7 where the name is taken already. *)

FR_NOT_READY == 3
FR_INVALID_PARAMETER == 19

Fat7Released ==
    [g_is_mounted |-> FALSE, g_storage |-> NullFatStorage,
     g_sector_size |-> 0, g_sector_count |-> 0, g_disk_ready |-> FALSE]

fatfsjs_release_p7(m) == Fat7Released

fatfsjs_configure_p7(m, sector_size, sector_count) ==
    IF sector_size = 0 \/ sector_count = 0
    THEN [err |-> -FR_INVALID_PARAMETER, m |-> m]
    ELSE [err |-> 0,
          m |-> [fatfsjs_release_p7(m) EXCEPT
                   !.g_storage = ErasedFatStorage,
                   !.g_sector_size = sector_size,
                   !.g_sector_count = sector_count,
                   !.g_disk_ready = TRUE]]

\* fatfsjs_mount(false): f_mount alone
fatfsjs_mount_p7(m) ==
    LET Mounted(fr) ==
            [err |-> fatfsjs_result(fr),
             m |-> [m EXCEPT !.g_is_mounted = (fr = FR_OK)]]
    IN Mounted(f_mount(m.g_storage, 0))

fatfsjs_ensure_mounted_p7(m) ==
    IF ~m.g_is_mounted THEN -FR_NOT_READY ELSE 0

fatfsjs_copy_from_image(m, image, len) ==
    IF image = NullFatImage \/ len # m.g_sector_size * m.g_sector_count
    THEN [err |-> -FR_INVALID_PARAMETER, m |-> m]
    ELSE [err |-> 0, m |-> [m EXCEPT !.g_storage = image.bytes]]

fatfsjs_init_from_image_p7(m, sector_size, sector_count, image, image_len) ==
    LET Mounted(r) ==
            IF r.err # 0 THEN [err |-> r.err, m |-> fatfsjs_release_p7(r.m)]
            ELSE r
        Copied(c) ==
            IF c.err # 0 THEN [err |-> c.err, m |-> fatfsjs_release_p7(c.m)]
            ELSE Mounted(fatfsjs_mount_p7(c.m))
        Configured(c) ==
            IF c.err # 0 THEN c
            ELSE Copied(fatfsjs_copy_from_image(c.m, image, image_len))
    IN Configured(fatfsjs_configure_p7(m, sector_size, sector_count))

\* f_mkdir for every prefix of the path that ends at a separator
RECURSIVE Fat7MkdirsFrom(_, _, _)
Fat7MkdirsFrom(v, path, k) ==
    IF k > Len(path) - 1 THEN [err |-> 0, vol |-> v]
    ELSE LET Next(r) ==
                 IF r.res # FR_OK /\ r.res # FR_EXIST
                 THEN [err |-> fatfsjs_result(r.res), vol |-> r.vol]
                 ELSE Fat7MkdirsFrom(r.vol, path, k + 1)
         IN Next(f_mkdir(v, SubSeq(path, 1, k)))

fatfsjs_mkdirs(v, path) == Fat7MkdirsFrom(v, path, 1)

\* the write loop: the rest of the data in one f_write, until f_write
\* takes no byte
RECURSIVE Fat7WriteLoop(_, _, _, _, _)
Fat7WriteLoop(v, path, data, length, written_total) ==
    IF written_total >= length
    THEN [res |-> FR_OK, vol |-> v, written_total |-> written_total]
    ELSE LET Next(w) ==
                 IF w.res # FR_OK
                 THEN [res |-> w.res, vol |-> w.vol,
                       written_total |-> written_total]
                 ELSE IF w.bw = 0
                 THEN [res |-> FR_OK, vol |-> w.vol,
                       written_total |-> written_total]
                 ELSE Fat7WriteLoop(w.vol, path, data, length,
                                    written_total + w.bw)
         IN Next(f_write(v, path, data.tag, length - written_total))

\* the result of fatfsjs_write_file behind its loop: the error of
\* f_write, else 0
Fat7WriteResult(w, length) ==
    IF w.res # FR_OK THEN fatfsjs_result(w.res) ELSE 0

Fat7Commit(m, v) == [m EXCEPT !.g_storage = FatStore(@, 0, v)]

\* data is [ptr, tag]; returns the code, the globals and the bytes
\* f_write took
fatfsjs_write_file_p7(m, path, data, length) ==
    LET Ret(res, x, n) == [res |-> res, m |-> x, written |-> n]
        Written(w) ==
            Ret(Fat7WriteResult(w, length), Fat7Commit(m, w.vol),
                w.written_total)
        Opened(o) ==
            IF o.res # FR_OK
            THEN Ret(fatfsjs_result(o.res), Fat7Commit(m, o.vol), 0)
            ELSE Written(Fat7WriteLoop(o.vol, path, data, length, 0))
        Prepared(p) ==
            IF p.err # 0 THEN Ret(p.err, Fat7Commit(m, p.vol), 0)
            ELSE Opened(f_open(p.vol, path))
    IN IF fatfsjs_ensure_mounted_p7(m) # 0
       THEN Ret(fatfsjs_ensure_mounted_p7(m), m, 0)
       ELSE IF path = FatNullPath \/ (data.ptr = 0 /\ length > 0)
       THEN Ret(-FR_INVALID_PARAMETER, m, 0)
       ELSE Prepared(fatfsjs_mkdirs(FatVolume(m.g_storage, 0), path))

fatfsjs_delete_file_p7(m, path) ==
    LET Done(r) == [res |-> fatfsjs_result(r.res), m |-> Fat7Commit(m, r.vol)]
    IN IF fatfsjs_ensure_mounted_p7(m) # 0
       THEN [res |-> fatfsjs_ensure_mounted_p7(m), m |-> m]
       ELSE IF path = FatNullPath
       THEN [res |-> -FR_INVALID_PARAMETER, m |-> m]
       ELSE Done(f_unlink(FatVolume(m.g_storage, 0), path))

fatfsjs_file_size_p7(m, path) ==
    LET Sized(info) ==
            IF info.res # FR_OK THEN fatfsjs_result(info.res)
            ELSE IF info.dir THEN -FR_INVALID_NAME
            ELSE info.fsize
    IN IF fatfsjs_ensure_mounted_p7(m) # 0 THEN fatfsjs_ensure_mounted_p7(m)
       ELSE IF path = FatNullPath THEN -FR_INVALID_PARAMETER
       ELSE Sized(f_stat(FatVolume(m.g_storage, 0).tree, path))

---------------------------------------------------------------------------
(* The calls on that revision: volumes come from images *)

MaxFat7Ops == 4

Fat7Geometries == { <<0, FatImageSectors>>,
                    <<FATFSJS_SECTOR_SIZE, FatImageSectors>> }

Fat7Paths == { FatNullPath, <<"a">>, <<"d", "b">> }

Fat7Call(op, path, length, res, size) ==
    [op |-> op, path |-> path, length |-> length, res |-> res,
     written |-> 0, size |-> size]

Fat7Init ==
    /\ fat7 = Fat7Released
    /\ fat7Last = Fat7Call("none", <<>>, 0, 0, 0)
    /\ fat7Ops = 0

Fat7Idle == UNCHANGED <<spVars, fatVars, lfsVars, halVars, roVars>>

Fat7Step ==
    /\ fat7Ops < MaxFat7Ops
    /\ fat7Ops' = fat7Ops + 1
    /\ Fat7Idle

Fat7InitFromImage ==
    \E g \in Fat7Geometries, image \in FatExternalImages \cup {NullFatImage} :
    \E r \in { fatfsjs_init_from_image_p7(fat7, g[1], g[2], image,
                                          image.len) } :
       /\ Fat7Step
       /\ fat7' = r.m
       /\ fat7Last' = Fat7Call("init_from_image", <<>>, image.len, r.err, 0)

\* size is what fatfsjs_file_size reports for the path after the call
Fat7WriteFile ==
    \E path \in Fat7Paths, payload \in FatPayloads :
    \E r \in { fatfsjs_write_file_p7(fat7, path,
                  [ptr |-> IF payload.len > 0 THEN 1 ELSE 0,
                   tag |-> payload.tag], payload.len) } :
       /\ Fat7Step
       /\ fat7' = r.m
       /\ fat7Last' = [Fat7Call("write_file", path, payload.len, r.res,
                                fatfsjs_file_size_p7(r.m, path))
                         EXCEPT !.written = r.written]

Fat7DeleteFile ==
    \E path \in Fat7Paths :
    \E r \in { fatfsjs_delete_file_p7(fat7, path) } :
       /\ Fat7Step
       /\ fat7' = r.m
       /\ fat7Last' = Fat7Call("delete_file", path, 0, r.res, 0)

Fat7FileSize ==
    \E path \in Fat7Paths :
       /\ fat7Last' = Fat7Call("file_size", path, 0,
                               fatfsjs_file_size_p7(fat7, path), 0)
       /\ UNCHANGED <<fat7, fat7Ops>>
       /\ Fat7Idle

Fat7Next ==
    \/ Fat7InitFromImage
    \/ Fat7WriteFile
    \/ Fat7DeleteFile
    \/ Fat7FileSize

---------------------------------------------------------------------------
(* Part VI. The read-only FAT16 reader: fatfs_wasm.c and its revision with
   subdirectories.  A C string is the sequence of its characters. *)

FATFSJS_BYTES_PER_SECTOR == 4096
FATFSJS_ROOT_DIR_SECTOR == 4
FATFSJS_DATA_START_SECTOR == 8
FATFSJS_DIR_ENTRY_SIZE == 32
FATFSJS_MAX_NAME == 64
FATFSJS_FAT16_EOC == 65528

\* the error codes of the reader
RO_ERR_INVAL == -1
RO_ERR_NOT_MOUNTED == -2
RO_ERR_NOT_FOUND == -3
RO_ERR_NOT_A_FILE == -4
RO_ERR_NOSPC == -5
RO_ERR_UNSUPPORTED == -6
RO_ERR_IO == -7

\* the null pointer as a path
RoNullPath == <<"(null)">>

\* toupper on the letters the paths of the model are written with
toupper(c) ==
    CASE c = "a" -> "A" [] c = "b" -> "B" [] c = "f" -> "F" [] c = "g" -> "G"
      [] c = "l" -> "L" [] c = "o" -> "O" [] c = "s" -> "S" [] c = "t" -> "T"
      [] c = "u" -> "U" [] c = "x" -> "X" [] OTHER -> c

RoIsSeparator(c) == c = "/" \/ c = "\\"

\* while (*cursor == '/' || *cursor == '\\') cursor++;
RoSkipSeparators(cursor) ==
    LET rest == { i \in 1..Len(cursor) : ~RoIsSeparator(cursor[i]) }
    IN IF rest = {} THEN <<>>
       ELSE SubSeq(cursor, MinOf(rest), Len(cursor))

RoMountName == <<"f", "a", "t", "f", "s">>

fatfsjs_starts_with_ci(value, prefix) ==
    /\ Len(value) >= Len(prefix)
    /\ \A i \in 1..Len(prefix) : toupper(value[i]) = toupper(prefix[i])

\* cursor += 5 when the path starts with the mount name
RoSkipMountName(cursor) ==
    IF fatfsjs_starts_with_ci(cursor, RoMountName)
    THEN SubSeq(cursor, Len(RoMountName) + 1, Len(cursor))
    ELSE cursor

fatfsjs_is_root_path(path) ==
    IF path = RoNullPath \/ path = <<>> THEN TRUE
    ELSE IF RoSkipSeparators(path) = <<>> THEN TRUE
    ELSE RoSkipSeparators(RoSkipMountName(RoSkipSeparators(path))) = <<>>

\* out is the file name in upper case; the copy loop returns at the first
\* separator or at the first character that does not fit in out_len,
\* whichever comes first
fatfsjs_normalize_file_path(path, out_len) ==
    LET cursor ==
            RoSkipSeparators(RoSkipMountName(RoSkipSeparators(path)))
        seps == { i \in 1..Len(cursor) : RoIsSeparator(cursor[i]) }
    IN IF path = RoNullPath \/ out_len = 0
       THEN [err |-> RO_ERR_INVAL, out |-> <<>>]
       ELSE IF cursor = <<>> THEN [err |-> RO_ERR_INVAL, out |-> <<>>]
       ELSE IF seps # {} /\ MinOf(seps) <= out_len
       THEN [err |-> RO_ERR_UNSUPPORTED, out |-> <<>>]
       ELSE IF Len(cursor) + 1 > out_len
       THEN [err |-> RO_ERR_INVAL, out |-> <<>>]
       ELSE [err |-> 0,
             out |-> [i \in 1..Len(cursor) |-> toupper(cursor[i])]]

\* the revision with subdirectories: the mount name is skipped only when
\* a separator or the end of the string follows it
fatfsjs_strip_mount(path) ==
    IF path = RoNullPath THEN <<>>
    ELSE LET cursor == RoSkipSeparators(path)
             after == SubSeq(cursor, Len(RoMountName) + 1, Len(cursor))
         IN RoSkipSeparators(
               IF fatfsjs_starts_with_ci(cursor, RoMountName)
                  /\ (after = <<>> \/ RoIsSeparator(after[1]))
               THEN after ELSE cursor)

fatfsjs_trim_spaces(value) ==
    LET kept == { i \in 1..Len(value) : value[i] # " " }
    IN IF kept = {} THEN <<>> ELSE SubSeq(value, 1, MaxOf(kept))

\* the 8 + 3 characters of a directory entry as "NAME.EXT"
fatfsjs_parse_short_name(entry) ==
    IF fatfsjs_trim_spaces(entry.ext) # <<>>
    THEN fatfsjs_trim_spaces(entry.name) \o <<".">>
            \o fatfsjs_trim_spaces(entry.ext)
    ELSE fatfsjs_trim_spaces(entry.name)

\* 0 when the strings are equal up to case
fatfsjs_compare_ci(a, b) ==
    IF Len(a) = Len(b) /\ \A i \in 1..Len(a) : toupper(a[i]) = toupper(b[i])
    THEN 0 ELSE 1

\* an image is its boot sector fields, the entries of its root directory
\* up to the first one that is all zero, its file allocation table from
\* cluster 2 on (every other entry is zero), and for the cluster
\* directories whether a cluster ends in an entry that is all zero
RoNullImage ==
    [len |-> 0, bytes_per_sector |-> 0, sectors_per_cluster |-> 0,
     reserved_sectors |-> 0, num_fats |-> 0, root_entry_count |-> 0,
     total_sectors_16 |-> 0, fat_size_sectors |-> 0, total_sectors_32 |-> 0,
     root |-> <<>>, fat |-> <<>>, dir_end |-> FALSE]

RoZeroLayout ==
    [bytes_per_sector |-> 0, sectors_per_cluster |-> 0,
     fat_size_sectors |-> 0, fat_start_sector |-> 0, root_dir_sector |-> 0,
     root_dir_sectors |-> 0, data_start_sector |-> 0, cluster_count |-> 0,
     root_entry_count |-> 0]

\* the globals after fatfsjs_release, which is also their initial value
RoReleased ==
    [g_is_mounted |-> FALSE, g_storage |-> RoNullImage, g_storage_len |-> 0,
     g_layout |-> RoZeroLayout]

\* the sizes of the model keep every product far below UINT32_MAX
fatfsjs_parse_layout(image, image_len) ==
    LET total_sectors ==
            IF image.total_sectors_16 # 0 THEN image.total_sectors_16
            ELSE image.total_sectors_32
        root_dir_sectors ==
            (image.root_entry_count * FATFSJS_DIR_ENTRY_SIZE
                + (image.bytes_per_sector - 1)) \div image.bytes_per_sector
        root_dir_sector ==
            image.reserved_sectors + image.num_fats * image.fat_size_sectors
        data_start_sector == root_dir_sector + root_dir_sectors
    IN IF image = RoNullImage \/ image_len < 64
       THEN [err |-> RO_ERR_INVAL, out |-> RoZeroLayout]
       ELSE IF image.bytes_per_sector # FATFSJS_BYTES_PER_SECTOR
       THEN [err |-> RO_ERR_INVAL, out |-> RoZeroLayout]
       ELSE IF image.sectors_per_cluster = 0 \/ image.reserved_sectors = 0
               \/ image.num_fats = 0 \/ image.fat_size_sectors = 0
               \/ total_sectors = 0
       THEN [err |-> RO_ERR_INVAL, out |-> RoZeroLayout]
       ELSE IF root_dir_sector # FATFSJS_ROOT_DIR_SECTOR
               \/ data_start_sector # FATFSJS_DATA_START_SECTOR
       THEN [err |-> RO_ERR_INVAL, out |-> RoZeroLayout]
       ELSE IF total_sectors * image.bytes_per_sector # image_len
       THEN [err |-> RO_ERR_INVAL, out |-> RoZeroLayout]
       ELSE [err |-> 0,
             out |-> [bytes_per_sector |-> image.bytes_per_sector,
                      sectors_per_cluster |-> image.sectors_per_cluster,
                      fat_size_sectors |-> image.fat_size_sectors,
                      fat_start_sector |-> image.reserved_sectors,
                      root_dir_sector |-> root_dir_sector,
                      root_dir_sectors |-> root_dir_sectors,
                      data_start_sector |-> data_start_sector,
                      cluster_count |->
                          (total_sectors - data_start_sector)
                              \div image.sectors_per_cluster,
                      root_entry_count |-> image.root_entry_count]]

fatfsjs_ensure_mounted_ro(m) ==
    IF ~m.g_is_mounted THEN RO_ERR_NOT_MOUNTED ELSE 0

fatfsjs_init_from_image_ro(m, image, image_len) ==
    LET Load(p) ==
            IF p.err # 0 THEN [err |-> p.err, m |-> m]
            ELSE [err |-> 0,
                  m |-> [g_is_mounted |-> TRUE, g_storage |-> image,
                         g_storage_len |-> image_len, g_layout |-> p.out]]
    IN IF image = RoNullImage \/ image_len = 0
       THEN [err |-> RO_ERR_INVAL, m |-> m]
       ELSE Load(fatfsjs_parse_layout(image, image_len))

\* a directory entry: first is its first byte, 0 for the end of the
\* directory and 229 for a deleted entry
RoEntry(name, ext, attr, size, first_cluster) ==
    [first |-> 70, name |-> name, ext |-> ext, attr |-> attr, size |-> size,
     first_cluster |-> first_cluster]

RoNoDirent == [name |-> <<>>, size |-> 0, first_cluster |-> 0, is_dir |-> FALSE]

\* the directory bit 0x10 and the volume label bit 0x08 of an attribute
RoAttrDir(attr) == (attr \div 16) % 2 = 1
RoAttrLabel(attr) == (attr \div 8) % 2 = 1

\* the entries of the root directory from entry i on
RECURSIVE RoFindFrom(_, _, _)
RoFindFrom(m, name, i) ==
    IF i > m.g_layout.root_entry_count \/ i > Len(m.g_storage.root)
    THEN [err |-> RO_ERR_NOT_FOUND, out |-> RoNoDirent]
    ELSE LET entry == m.g_storage.root[i]
         IN IF entry.first = 0
            THEN [err |-> RO_ERR_NOT_FOUND, out |-> RoNoDirent]
            ELSE IF entry.first = 229 \/ entry.attr = 15
                    \/ RoAttrLabel(entry.attr)
                    \/ fatfsjs_parse_short_name(entry) = <<>>
                    \/ fatfsjs_compare_ci(name,
                           fatfsjs_parse_short_name(entry)) # 0
            THEN RoFindFrom(m, name, i + 1)
            ELSE [err |-> 0,
                  out |-> [name |-> fatfsjs_parse_short_name(entry),
                           size |-> entry.size,
                           first_cluster |-> entry.first_cluster,
                           is_dir |-> RoAttrDir(entry.attr)]]

fatfsjs_find_entry(m, name) ==
    IF (m.g_layout.root_dir_sector + m.g_layout.root_dir_sectors)
          * m.g_layout.bytes_per_sector > m.g_storage_len
    THEN [err |-> RO_ERR_IO, out |-> RoNoDirent]
    ELSE RoFindFrom(m, name, 1)

\* the 16-bit entry of a cluster in the file allocation table
RoFatEntry(m, cluster) ==
    IF cluster - 1 \in DOMAIN m.g_storage.fat
    THEN m.g_storage.fat[cluster - 1] ELSE 0

fatfsjs_read_fat(m, cluster) ==
    IF cluster * 2 + 1
          >= m.g_layout.fat_size_sectors * m.g_layout.bytes_per_sector
    THEN [err |-> RO_ERR_IO, value |-> 0]
    ELSE IF m.g_layout.fat_start_sector * m.g_layout.bytes_per_sector
               + cluster * 2 + 1 >= m.g_storage_len
    THEN [err |-> RO_ERR_IO, value |-> 0]
    ELSE [err |-> 0, value |-> RoFatEntry(m, cluster)]

RoClusterSize(m) ==
    m.g_layout.bytes_per_sector * m.g_layout.sectors_per_cluster

\* offset + cluster_size > g_storage_len for the offset of a cluster
RoClusterOutside(m, cluster) ==
    (m.g_layout.data_start_sector
        + (cluster - 2) * m.g_layout.sectors_per_cluster)
          * m.g_layout.bytes_per_sector + RoClusterSize(m) > m.g_storage_len

\* the loop of fatfsjs_copy_file; dest lists the clusters copied, each
\* with the number of bytes taken from it, and links counts the entries
\* of the table followed
RECURSIVE RoCopyLoop(_, _, _, _, _, _, _)
RoCopyLoop(m, size, cluster, remaining, guard, dest, links) ==
    IF remaining = 0 THEN [res |-> size, dest |-> dest, links |-> links]
    ELSE IF cluster < 2 \/ guard = 0
    THEN [res |-> RO_ERR_IO, dest |-> dest, links |-> links]
    ELSE IF RoClusterOutside(m, cluster)
    THEN [res |-> RO_ERR_IO, dest |-> dest, links |-> links]
    ELSE LET to_copy == IF remaining < RoClusterSize(m) THEN remaining
                        ELSE RoClusterSize(m)
             copied == Append(dest, <<cluster, to_copy>>)
             Follow(r) ==
                 IF r.err # 0
                 THEN [res |-> r.err, dest |-> copied, links |-> links]
                 ELSE IF r.value >= FATFSJS_FAT16_EOC \/ r.value < 2
                 THEN [res |-> RO_ERR_IO, dest |-> copied, links |-> links]
                 ELSE RoCopyLoop(m, size, r.value, remaining - to_copy,
                                 guard - 1, copied, links + 1)
         IN IF remaining - to_copy = 0
            THEN [res |-> size, dest |-> copied, links |-> links]
            ELSE Follow(fatfsjs_read_fat(m, cluster))

\* dest is 0 for a null buffer
fatfsjs_copy_file(m, entry, dest, buffer_len) ==
    IF dest = 0 THEN [res |-> RO_ERR_INVAL, dest |-> <<>>, links |-> 0]
    ELSE IF entry.size = 0 THEN [res |-> 0, dest |-> <<>>, links |-> 0]
    ELSE IF entry.size > buffer_len
    THEN [res |-> RO_ERR_NOSPC, dest |-> <<>>, links |-> 0]
    ELSE IF entry.first_cluster < 2
    THEN [res |-> RO_ERR_IO, dest |-> <<>>, links |-> 0]
    ELSE RoCopyLoop(m, entry.size, entry.first_cluster, entry.size,
                    m.g_layout.cluster_count + 1, <<>>, 0)

\* the file entries every cluster of a cluster directory holds; when
\* dir_end is set an entry that is all zero follows them, otherwise
\* deleted entries fill the cluster
RoDirEntries == << <<"A", ".", "T", "X", "T">>, <<"B", ".", "T", "X", "T">> >>

\* the callbacks: fatfsjs_list_cb returns 0 for every entry (the buffer
\* holds them all), fatfsjs_find_cb returns 1 for the entry of the name
RoListCb == <<>>
RoCallback(cb, name) ==
    IF cb # RoListCb /\ fatfsjs_compare_ci(cb, name) = 0 THEN 1 ELSE 0

\* the loop of fatfsjs_iterate_cluster_dir; seen counts the entries
\* handed to the callback
RECURSIVE RoDirLoop(_, _, _, _, _, _)
RoDirLoop(m, cb, cluster, guard, seen, links) ==
    IF cluster < 2 \/ guard = 0
    THEN [res |-> RO_ERR_IO, seen |-> seen, links |-> links]
    ELSE IF RoClusterOutside(m, cluster)
    THEN [res |-> RO_ERR_IO, seen |-> seen, links |-> links]
    ELSE LET hits == { i \in 1..Len(RoDirEntries) :
                          RoCallback(cb, RoDirEntries[i]) # 0 }
             Follow(r) ==
                 IF r.err # 0
                 THEN [res |-> r.err, seen |-> seen + Len(RoDirEntries),
                       links |-> links]
                 ELSE IF r.value >= FATFSJS_FAT16_EOC \/ r.value < 2
                 THEN [res |-> 0, seen |-> seen + Len(RoDirEntries),
                       links |-> links]
                 ELSE RoDirLoop(m, cb, r.value, guard - 1,
                                seen + Len(RoDirEntries), links + 1)
         IN IF hits # {}
            THEN [res |-> 1, seen |-> seen + MinOf(hits), links |-> links]
            ELSE IF m.g_storage.dir_end
            THEN [res |-> 0, seen |-> seen + Len(RoDirEntries),
                  links |-> links]
            ELSE Follow(fatfsjs_read_fat(m, cluster))

fatfsjs_iterate_cluster_dir(m, start_cluster, cb) ==
    IF start_cluster < 2 THEN [res |-> RO_ERR_IO, seen |-> 0, links |-> 0]
    ELSE IF RoClusterSize(m) = 0
            \/ RoClusterSize(m) % FATFSJS_DIR_ENTRY_SIZE # 0
    THEN [res |-> RO_ERR_IO, seen |-> 0, links |-> 0]
    ELSE RoDirLoop(m, cb, start_cluster, m.g_layout.cluster_count + 1, 0, 0)

fatfsjs_file_size_ro(m, path) ==
    LET Size(f) ==
            IF f.err # 0 THEN f.err
            ELSE IF f.out.is_dir THEN RO_ERR_NOT_A_FILE
            ELSE f.out.size
        Find(n) == IF n.err # 0 THEN n.err
                   ELSE Size(fatfsjs_find_entry(m, n.out))
    IN IF fatfsjs_ensure_mounted_ro(m) # 0 THEN fatfsjs_ensure_mounted_ro(m)
       ELSE Find(fatfsjs_normalize_file_path(path, FATFSJS_MAX_NAME))

fatfsjs_read_file_ro(m, path, buffer_ptr, buffer_len) ==
    LET Fail(err) == [res |-> err, dest |-> <<>>, links |-> 0]
        Copy(f) ==
            IF f.err # 0 THEN Fail(f.err)
            ELSE IF f.out.is_dir THEN Fail(RO_ERR_NOT_A_FILE)
            ELSE fatfsjs_copy_file(m, f.out, buffer_ptr, buffer_len)
        Find(n) == IF n.err # 0 THEN Fail(n.err)
                   ELSE Copy(fatfsjs_find_entry(m, n.out))
    IN IF fatfsjs_ensure_mounted_ro(m) # 0
       THEN Fail(fatfsjs_ensure_mounted_ro(m))
       ELSE IF path = RoNullPath \/ buffer_ptr = 0 \/ buffer_len = 0
       THEN Fail(RO_ERR_INVAL)
       ELSE Find(fatfsjs_normalize_file_path(path, FATFSJS_MAX_NAME))

\* clusters of the data area of the images of the model
RoClusterCount == 3

\* what an entry of the table may hold: free, a cluster of the data
\* area, the end of a chain
RoFatValues == {0, FATFSJS_FAT16_EOC} \cup 2..(RoClusterCount + 1)

\* sizes of the first file: empty, more than a cluster, more clusters
\* than the data area has
RoSizes ==
    {0, FATFSJS_BYTES_PER_SECTOR + 904,
     FATFSJS_BYTES_PER_SECTOR * (RoClusterCount + 3)}

\* root directory: FATFSLOG.TXT in cluster 2, LOG.TXT in cluster 3 and the
\* directory SUB in the last cluster
RoRoot(size) ==
    << RoEntry(<<"F", "A", "T", "F", "S", "L", "O", "G">>,
               <<"T", "X", "T">>, 32, size, 2),
       RoEntry(<<"L", "O", "G", " ", " ", " ", " ", " ">>,
               <<"T", "X", "T">>, 32, 100, 3),
       RoEntry(<<"S", "U", "B", " ", " ", " ", " ", " ">>,
               <<" ", " ", " ">>, 16, 0, RoClusterCount + 1) >>

\* FAT16 images with one sector per cluster, one table in sectors 1 to 3
\* and a root directory of 512 entries in sectors 4 to 7
RoImages ==
    { [len |-> (FATFSJS_DATA_START_SECTOR + RoClusterCount)
                  * FATFSJS_BYTES_PER_SECTOR,
       bytes_per_sector |-> FATFSJS_BYTES_PER_SECTOR,
       sectors_per_cluster |-> 1, reserved_sectors |-> 1, num_fats |-> 1,
       root_entry_count |-> 512,
       total_sectors_16 |-> FATFSJS_DATA_START_SECTOR + RoClusterCount,
       fat_size_sectors |-> 3, total_sectors_32 |-> 0,
       root |-> RoRoot(x[2]), fat |-> x[1], dir_end |-> x[3]] :
      x \in [1..RoClusterCount -> RoFatValues] \X RoSizes \X BOOLEAN }

\* the image with sectors of 512 bytes
RoSmallSectors(image) == [image EXCEPT !.bytes_per_sector = 512]

RoPaths ==
    { RoNullPath,
      <<"F", "A", "T", "F", "S", "L", "O", "G", ".", "T", "X", "T">>,
      <<"f", "a", "t", "f", "s", "l", "o", "g", ".", "t", "x", "t">>,
      <<"L", "O", "G", ".", "T", "X", "T">>,
      <<"/", "f", "a", "t", "f", "s", "/", "L", "O", "G", ".", "T", "X", "T">>,
      <<"/", "f", "a", "t", "f", "s", "/", "F", "A", "T", "F", "S", "L", "O",
        "G", ".", "T", "X", "T">>,
      <<"f", "a", "t", "f", "s">>,
      <<"S", "U", "B">>,
      <<"S", "U", "B", "/", "A", ".", "T", "X", "T">> }

RoBufferLens == {0, FATFSJS_BYTES_PER_SECTOR, 16 * FATFSJS_BYTES_PER_SECTOR}

RoCallbacks == { RoListCb, RoDirEntries[2], <<"X">> }

\* the record of a call
RoCall(op, path, res) ==
    [op |-> op, path |-> path, res |-> res, dest |-> <<>>, links |-> 0,
     start |-> 0, cb |-> RoListCb, seen |-> 0, buffer_len |-> 0]

\* the page holds no image file
RoInit ==
    /\ ro = RoReleased
    /\ roLast = RoCall("none", RoNullPath, 0)
    /\ roImage = RoNullImage

\* the page was given one of the image files
RoInitWithImage ==
    /\ ro = RoReleased
    /\ roLast = RoCall("none", RoNullPath, 0)
    /\ roImage \in RoImages

RoIdle == UNCHANGED <<spVars, fatVars, lfsVars, halVars, fat7Vars, roImage>>

RoInitFromImage ==
    \E image \in {roImage, RoNullImage, RoSmallSectors(roImage)} :
    \E r \in { fatfsjs_init_from_image_ro(ro, image, image.len) } :
       /\ ro' = r.m
       /\ roLast' = RoCall("init_from_image", RoNullPath, r.err)
       /\ RoIdle

RoFileSize ==
    \E path \in RoPaths :
       /\ roLast' = RoCall("file_size", path, fatfsjs_file_size_ro(ro, path))
       /\ UNCHANGED ro
       /\ RoIdle

RoReadFile ==
    \E path \in RoPaths, buffer_len \in RoBufferLens :
    \E r \in { fatfsjs_read_file_ro(ro, path, 1, buffer_len) } :
       /\ roLast' = [RoCall("read_file", path, r.res)
                       EXCEPT !.dest = r.dest, !.links = r.links,
                              !.buffer_len = buffer_len]
       /\ UNCHANGED ro
       /\ RoIdle

\* fatfsjs_list and fatfsjs_find_in_dir of the revision with
\* subdirectories walk a cluster directory of a mounted image
RoIterateClusterDir ==
    \E start_cluster \in 0..(RoClusterCount + 2), cb \in RoCallbacks :
    \E r \in { fatfsjs_iterate_cluster_dir(ro, start_cluster, cb) } :
       /\ ro.g_is_mounted
       /\ roLast' = [RoCall("iterate_cluster_dir", RoNullPath, r.res)
                       EXCEPT !.start = start_cluster, !.cb = cb,
                              !.seen = r.seen, !.links = r.links]
       /\ UNCHANGED ro
       /\ RoIdle

RoNext ==
    \/ RoInitFromImage
    \/ RoFileSize
    \/ RoReadFile
    \/ RoIterateClusterDir

---------------------------------------------------------------------------
(* Specifications: the page after instantiation, no module called yet, and
   the calls of the client of one module *)

InitModulesIdle == FatInit /\ LfsModuleInit /\ HalInit /\ Fat7Init

InitSpiffs == SpiffsInit /\ InitModulesIdle /\ RoInit

SpecSpiffs == InitSpiffs /\ [][SpiffsNext]_vars

InitFat == InitSpiffs /\ spClient = "app"

SpecFat == InitFat /\ [][FatNext]_vars

SpecLfs == InitFat /\ [][LfsNext]_vars

\* a page that instantiates one of the modules
ModulesNext == SpiffsNext \/ FatNext \/ LfsNext

SpecModules == InitSpiffs /\ [][ModulesNext]_vars

\* the callbacks a file system makes on its block device
SpecHal == InitFat /\ [][HalNext]_vars

\* the calls on the FatFS binding in its revision with a sector size
SpecFat7 == InitFat /\ [][Fat7Next]_vars

\* the calls on the read-only FAT reader, whose page was given an image
InitReader ==
    SpiffsInit /\ spClient = "app" /\ InitModulesIdle /\ RoInitWithImage

SpecReader == InitReader /\ [][RoNext]_vars
---------------------------------------------------------------------------
(* Properties of the FatFS binding *)

FatRootList(m) == FatFSClient_list(m, FAT_MOUNT, INITIAL_LIST_BUFFER)

\* C7: after format() succeeds, whatever the volume held, the listing of
\* the mount root is empty, and the image exported from the formatted
\* volume initialises through fatfsjs_init_from_image to a mounted volume
\* whose root listing is empty too.
C7_FormatWipes ==
    (fatLast.op = "format" /\ fatLast.ok) =>
       /\ FatRootList(fat).ok
       /\ FatRootList(fat).value = <<>>
       /\ \A img \in {FatFSClient_toImage(fat)} :
             /\ img.ok
             /\ \A r \in {fatfsjs_init_from_image(
                               FatReleased, img.value, img.value.len)} :
                   /\ r.err = 0
                   /\ r.m.g_is_mounted
                   /\ FatRootList(r.m).ok
                   /\ FatRootList(r.m).value = <<>>

\* a format that succeeded on a volume whose root listing was not empty
C7_Witness ==
    /\ fatLast.op = "format"
    /\ fatLast.ok
    /\ fatLast.pre[2] # <<>>

\* C9: in every state the calls of the client reach, a getUsage() that
\* returns reports capacityBytes = block size x block count of the
\* storage, freeBytes >= 0 and usedBytes + freeBytes = capacityBytes.
C9_UsageInvariant ==
    LET Holds(u) ==
            u.ok =>
               /\ u.value.capacityBytes =
                      FATFSJS_SECTOR_SIZE * fat.g_sector_count
               /\ u.value.freeBytes >= 0
               /\ u.value.usedBytes + u.value.freeBytes
                      = u.value.capacityBytes
    IN ~fat.stuck => Holds(FatFSClient_getUsage(fat))

\* getUsage returned for a volume that holds a directory and file data
C9_Witness ==
    /\ fatLast.op = "getUsage"
    /\ fatLast.ok
    /\ fatLast.out[2].usedBytes > 0
    /\ \E e \in FatMounted(fat).tree : e.dir

\* C10: after rename(old, new) succeeds, readFile(new) returns the bytes
\* readFile(old) returned before the rename, and no entry of the listing
\* carries the old path.
C10_RenamePreservesContent ==
    (fatLast.op = "rename" /\ fatLast.ok) =>
       /\ fatLast.pre[1] = "content" =>
             /\ FatFSClient_readFile(fat, fatLast.to).ok
             /\ FatFSClient_readFile(fat, fatLast.to).value
                    = fatLast.pre[2]
       /\ FatRootList(fat).ok
       /\ \A i \in 1..Len(FatRootList(fat).value) :
             FatRootList(fat).value[i].path
                 # normalizeFatfsPath(fatLast.path)

\* C10, amended: after rename(old, new) succeeds, readFile(new) returns the
\* bytes readFile(old) returned before the rename; when new is another path
\* than old, no entry of the listing carries the old path, and when it is
\* the same path the entry stays listed.
C10_RenameMovesContent ==
    (fatLast.op = "rename" /\ fatLast.ok) =>
       LET Listed(path, list) ==
               \E i \in 1..Len(list) : list[i].path = path
       IN /\ fatLast.pre[1] = "content" =>
                /\ FatFSClient_readFile(fat, fatLast.to).ok
                /\ FatFSClient_readFile(fat, fatLast.to).value
                       = fatLast.pre[2]
          /\ FatRootList(fat).ok
          /\ Listed(normalizeFatfsPath(fatLast.path),
                    FatRootList(fat).value)
                 <=> normalizeFatfsPath(fatLast.path)
                         = normalizeFatfsPath(fatLast.to)

\* a rename to another path that succeeded on a file that held data
C10_Witness ==
    /\ fatLast.op = "rename"
    /\ fatLast.ok
    /\ fatLast.path # fatLast.to
    /\ fatLast.pre[1] = "content"
    /\ fatLast.pre[2].len > 0
\* C14: on a mounted volume with room, writeFile(path) to a path none of
\* whose ancestors is a file succeeds and leaves every ancestor of the path
\* a directory, whether they existed before or not.
C14_WriteCreatesAncestors ==
    \A path \in FatWritePaths :
       LET ff == toWasmPath(normalizeFatfsPath(path))
           Ancestors == { SubSeq(ff, 1, k) : k \in 1..(Len(ff) - 1) }
           Holds(v, r) ==
               (/\ \A a \in Ancestors :
                      FatExists(v.tree, a) => FatIsDir(v.tree, a)
                /\ ~FatIsDir(v.tree, ff)
                /\ FatUsedClusters(v.tree) + Len(ff) <= v.clusters)
               => /\ r.ok
                  /\ \A a \in Ancestors : FatIsDir(FatMounted(r.m).tree, a)
       IN (fat.g_is_mounted /\ ~fat.stuck) =>
             Holds(FatMounted(fat), FatFSClient_writeFile(fat, path, NoData))

\* writeFile("d/e/b") failed on a mounted volume: d is a directory and d/e,
\* the directory that was to hold the file, is missing
C14_Witness ==
    /\ fatLast.op = "writeFile"
    /\ ~fatLast.ok
    /\ fatLast.code = -FR_NO_PATH
    /\ fatLast.path = <<"d", "e", "b">>
    /\ fat.g_is_mounted
    /\ FatIsDir(FatMounted(fat).tree, <<"d">>)
    /\ ~FatExists(FatMounted(fat).tree, <<"d", "e">>)
---------------------------------------------------------------------------
(* Properties of more than one binding *)

C11_WitnessSpiffs ==
    /\ spLast.op = "remove_file"
    /\ spLast.res = 0
    /\ SpiffsClient_list(spiffs) # <<>>

---------------------------------------------------------------------------
(* Properties of the SPIFFS client's listing *)

\* C13: on a mounted volume list() of the SPIFFS client returns, without
\* throwing, one entry for every object of the volume, whatever their
\* number.
C13_ListReturnsEveryObject ==
    spiffs.g_is_mounted =>
       /\ SpiffsClient_listOutcome(spiffs).ok
       /\ SpiffsClient_listOutcome(spiffs).value
              = SPIFFS_readdir(spiffs.g_storage.blocks)

\* list() was called on a mounted volume whose listing does not fit the
\* client's buffer
C13_Witness ==
    /\ spLast.op = "list"
    /\ spiffs.g_is_mounted
    /\ Len(SPIFFS_readdir(spiffs.g_storage.blocks)) = MaxCrowd
    /\ spLast.res = SPIFFS_ERR_INTERNAL

\* list() returned every object of a volume whose listing just fits
C13_WitnessFits ==
    /\ spLast.op = "list"
    /\ Len(spLast.out) = MaxCrowd - 1
    /\ spLast.res = INITIAL_LIST_BUFFER - 1

---------------------------------------------------------------------------
(* Properties of the littlefs binding *)

LfsListAll(m) == lfsjs_list(m, 1, 4096)

\* C12: the listing of a mounted volume has one entry for every file and
\* every directory of the volume, the entry of a directory before the
\* entries of what it holds.
C12_ListHasFilesAndDirs ==
    LET Index(out, p) == CHOOSE i \in 1..Len(out) : out[i].path = p
        Complete(out, tree) ==
            /\ \A e \in tree : \E i \in 1..Len(out) : out[i].path = e.path
            /\ \A i, j \in 1..Len(out) : out[i].path = out[j].path => i = j
            /\ \A e \in tree :
                  Len(e.path) > 1 =>
                     Index(out, SubSeq(e.path, 1, Len(e.path) - 1))
                         < Index(out, e.path)
    IN lfs.g_is_mounted =>
          /\ LfsListAll(lfs).res >= 0
          /\ Complete(LfsListAll(lfs).out, lfs.g_storage.tree)

\* lfsjs_list returned the listing of a mounted volume that holds a
\* directory with a file in it
C12_Witness ==
    /\ lfsLast.op = "list"
    /\ lfsLast.err > 0
    /\ \E e \in lfs.g_storage.tree : e.dir
    /\ \E e \in lfs.g_storage.tree : Len(e.path) = 2

\* images handed to the three init_from_image functions when their
\* behaviour is examined in a state: the images of the clients and erased
\* flash of the right length
SpBlankImage(g) ==
    IF g[1] = 0 THEN NullImage
    ELSE [len |-> g[2] * g[3], bytes |-> BlankStorage(g[1], g[2], g[3])]
FatBlankImage ==
    [len |-> FatImageSectors * FATFSJS_SECTOR_SIZE, bytes |-> ErasedFatStorage]

\* C15: init_from_image never formats: when it succeeds the module is
\* mounted on the bytes of the image, unchanged; when the mount of the
\* image fails it returns the error of that mount, the storage is released
\* and the module is not mounted.  For the three bindings, in whatever
\* state the module is when the call is made.
C15_ImageInitNeverFormats ==
    /\ \A g \in LfsGeometries, has_memory \in BOOLEAN,
          image \in LfsExternalImages :
          \A r \in { lfsjs_init_from_image(lfs, g[1], g[2], has_memory,
                                           image, image.len) } :
             /\ \A i \in 1..Len(r.calls) : r.calls[i][1] # "lfs_format"
             /\ r.err = 0 => r.m.g_is_mounted /\ r.m.g_storage = image
             /\ r.calls # <<>> =>
                   /\ r.err = lfs_mount(image, [block_size |-> g[1],
                                                 block_count |-> g[2]])
                   /\ r.err # 0 => r.m.g_storage = LfsNullStorage
                                   /\ ~r.m.g_is_mounted
    /\ \A g \in SpGeometries :
       \A image \in {spImage.image, NullImage, SpBlankImage(g)} :
          \A r \in { spiffsjs_init_from_image(spiffs, g[1], g[2], g[3],
                                              image) } :
             /\ r.err = 0 => r.m.g_is_mounted
                             /\ r.m.g_storage = image.bytes
             /\ (spiffsjs_configure(spiffs, g[1], g[2], g[3]).err = 0
                 /\ image # NullImage /\ image.len = g[2] * g[3]) =>
                   /\ r.err = spiffsjs_result(
                          SPIFFS_mount(image.bytes, g[1], g[2], g[3]).res)
                   /\ r.err # 0 => r.m.g_storage = NullStorage
                                   /\ ~r.m.g_is_mounted
    /\ \A image \in FatExternalImages \cup {fatImage, FatBlankImage} :
          \A r \in { fatfsjs_init_from_image(fat, image, image.len) } :
             /\ r.err = 0 => r.m.g_is_mounted
                             /\ r.m.g_storage = image.bytes
             /\ (image # NullFatImage
                 /\ image.len % FATFSJS_SECTOR_SIZE = 0) =>
                   /\ r.err = 0 \/ r.err = -FR_NO_FILESYSTEM
                   /\ r.err # 0 => r.m.g_storage = NullFatStorage
                                   /\ ~r.m.g_is_mounted

\* lfsjs_init_from_image was called on a mounted module with an image of
\* the right length that does not mount: it made one lfs_mount, which
\* failed
C15_Witness ==
    /\ lfsLast.op = "init_from_image"
    /\ lfsLast.pre.g_is_mounted
    /\ Len(lfsLast.calls) = 1
    /\ lfsLast.err # 0
    /\ lfsLast.err = lfsLast.calls[1][2]

\* fatfsjs_init_from_image failed to mount an image on a mounted module
C15_WitnessFat ==
    /\ fatLast.op = "init_from_image"
    /\ fatLast.code = -FR_NO_FILESYSTEM
    /\ ~fat.g_is_mounted

\* the calls an init without image made, read against the sequence the
\* claim gives: mount first; after a mount that succeeded nothing more;
\* after one that failed one format and, when again is set or the format
\* succeeded, a second mount and nothing more
InitSequence(calls, mount, format, again) ==
    /\ calls[1][1] = mount
    /\ calls[1][2] = 0 => Len(calls) = 1
    /\ calls[1][2] # 0 =>
          /\ Len(calls) >= 2
          /\ calls[2][1] = format
          /\ (again \/ calls[2][2] = 0) =>
                Len(calls) = 3 /\ calls[3][1] = mount
          /\ (~again /\ calls[2][2] # 0) => Len(calls) = 2

\* init succeeded iff the last mount it made succeeded
InitOutcome(calls, mount, err) ==
    LET mounts == { i \in 1..Len(calls) : calls[i][1] = mount }
        last == CHOOSE i \in mounts : \A j \in mounts : j <= i
    IN err = 0 <=> calls[last][2] = 0

InitContract(again) ==
    /\ (lfsLast.op = "init" /\ lfsLast.calls # <<>>) =>
          /\ InitSequence(lfsLast.calls, "lfs_mount", "lfs_format", again)
          /\ InitOutcome(lfsLast.calls, "lfs_mount", lfsLast.err)
          /\ lfsLast.err = 0 => lfs.g_is_mounted
          /\ lfsLast.err # 0 => ~lfs.g_is_mounted
                                /\ lfs.g_storage = LfsNullStorage
    /\ (spLast.op = "init" /\ spLast.calls # <<>>) =>
          /\ InitSequence(spLast.calls, "SPIFFS_mount", "SPIFFS_format",
                          again)
          /\ InitOutcome(spLast.calls, "SPIFFS_mount", spLast.res)
          /\ spLast.res = 0 => spiffs.g_is_mounted
          /\ spLast.res # 0 => ~spiffs.g_is_mounted
                               /\ spiffs.g_storage = NullStorage

C16_WitnessSpiffs ==
    /\ spLast.op = "init"
    /\ spLast.res = 0
    /\ Len(spLast.calls) = 3
    /\ spLast.calls[1][2] # 0
    /\ spiffs.g_is_mounted

\* lfsjs_init gave up after a format that failed
C16_WitnessFormatFails ==
    /\ lfsLast.op = "init"
    /\ Len(lfsLast.calls) = 2
    /\ lfsLast.calls[2][2] # 0

HalProgrammed ==
    /\ halLast.op \in {"spiffs_write", "lfs_prog"}
    /\ halLast.res = 0
    /\ halLast.outside = 0

\* C18: after spiffsjs_hal_write or lfsjs_ram_prog has returned 0, every
\* byte of the backing store in the programmed span is the bitwise AND of
\* the byte it held before the call and the byte of the data, so a bit
\* that was 0 before the call is 0 after it; only an erase (and the fill
\* of a new backing store) sets bits.
C18_ProgramOnlyClearsBits ==
    HalProgrammed =>
       \A i \in 1..halLast.size :
          hal.g_storage[halLast.addr + i] =
             HalAnd(halLast.pre[halLast.addr + i], halLast.src[i], 8)

\* a program call has returned 0 on a span with a byte that had a cleared
\* bit where the data has a set bit, and that bit is set afterwards
C18_Witness ==
    /\ HalProgrammed
    /\ \E i \in 1..halLast.size :
          /\ halLast.pre[halLast.addr + i] = 15
          /\ halLast.src[i] = 240
          /\ hal.g_storage[halLast.addr + i] = 240
          /\ HalAnd(15, 240, 8) = 0

(***************************************************************************)
(* Properties of a module without a mounted volume                         *)
(***************************************************************************)

SpUnmountedOps ==
    { "list", "file_size", "read_file", "write_file", "remove_file",
      "format", "get_usage", "can_fit" }

\* C19: while g_is_mounted is false (before an init has succeeded, and
\* after a failed init has released the module), each of spiffsjs_list,
\* spiffsjs_file_size, spiffsjs_read_file, spiffsjs_write_file,
\* spiffsjs_remove_file, spiffsjs_format, spiffsjs_get_usage and
\* spiffsjs_can_fit returns SPIFFS_ERR_NOT_MOUNTED for every argument,
\* leaves the globals of the module as they are and writes nothing to the
\* buffer of the caller.
C19_UnmountedOpsFail ==
    ~spiffs.g_is_mounted =>
       /\ \A len \in {0, 8, INITIAL_LIST_BUFFER}, ptr \in {0, 1} :
             spiffsjs_list(spiffs, ptr, len) =
                [res |-> SPIFFS_ERR_NOT_MOUNTED, out |-> <<>>]
       /\ \A path \in SpPaths :
             /\ spiffsjs_file_size(spiffs, path) = SPIFFS_ERR_NOT_MOUNTED
             /\ \A len \in {0, 2, 3}, ptr \in {0, 1} :
                \A r \in { spiffsjs_read_file(spiffs, path, ptr, len) } :
                   /\ r.res = SPIFFS_ERR_NOT_MOUNTED
                   /\ \A i \in 1..len : r.buf[i] = Garbage
             /\ \A data \in AppPayloads \cup ChurnPayloads, ptr \in {0, 1} :
                \A r \in { spiffsjs_write_file(spiffs, path,
                              [ptr |-> ptr, bytes |-> data], Len(data)) } :
                   r.res = SPIFFS_ERR_NOT_MOUNTED /\ r.m = spiffs
             /\ \A r \in { spiffsjs_remove_file(spiffs, path) } :
                   r.res = SPIFFS_ERR_NOT_MOUNTED /\ r.m = spiffs
             /\ \A length \in {0, 64} :
                   spiffsjs_can_fit(spiffs, path, length) =
                      SPIFFS_ERR_NOT_MOUNTED
       /\ \A format_res \in SpFormatResults :
          \A r \in { spiffsjs_format(spiffs, format_res) } :
             r.err = SPIFFS_ERR_NOT_MOUNTED /\ r.m = spiffs
       /\ \A ptr \in {0, 1} :
             spiffsjs_get_usage(spiffs, ptr) =
                [res |-> SPIFFS_ERR_NOT_MOUNTED, dest |-> <<>>]

\* one of the eight calls was made on a module without a mounted volume
\* and has returned SPIFFS_ERR_NOT_MOUNTED
C19_Witness ==
    /\ spLast.op \in SpUnmountedOps
    /\ spLast.res = SPIFFS_ERR_NOT_MOUNTED
    /\ ~spiffs.g_is_mounted
    /\ spiffs = SpReleased

\* an init has failed and released the module
C19_WitnessFailedInit ==
    /\ spLast.op \in {"init", "init_from_image"}
    /\ spLast.res # 0
    /\ ~spiffs.g_is_mounted
    /\ spiffs = SpReleased
    /\ spImage.image # NullImage

(***************************************************************************)
(* Properties of the boot sectors of a FAT image                           *)
(***************************************************************************)

\* the storage came from an image with a boot record in sector 0 and a
\* copy of it in sector 1
FatMirrored(m) ==
    /\ m.g_storage # NullFatStorage
    /\ m.g_is_mounted
    /\ fatfsjs_is_boot_sector(m.g_storage.s0)
    /\ fatfsjs_is_boot_sector(m.g_storage.s1)

\* C20: on a volume imported from an image whose sectors 0 and 1 both are
\* boot records, after format() has succeeded the first two sectors of
\* the image toImage() exports hold the same bytes.
C20_FormatKeepsBootMirror ==
    FatMirrored(fat) =>
       \A r \in { FatFSClient_format(fat) } :
          r.ok =>
             \A img \in { FatFSClient_toImage(r.m) } :
                /\ img.ok
                /\ img.value.bytes.s0 = img.value.bytes.s1

\* format() has succeeded on a volume at sector offset 1 whose sector 0
\* held a boot record: sector 0 still holds it, sector 1 holds the
\* partition table f_mkfs wrote
C20_Witness ==
    /\ fatLast.op = "format"
    /\ fatLast.ok
    /\ fat.g_sector_offset = 1
    /\ fatfsjs_is_boot_sector(fat.g_storage.s0)
    /\ fat.g_storage.s1 = "mbr"
    /\ FatFSClient_toImage(fat).ok
    /\ FatFSClient_toImage(fat).value.bytes.s0
          # FatFSClient_toImage(fat).value.bytes.s1

(***************************************************************************)
(* Properties of the whole-file transfers                                  *)
(***************************************************************************)

\* C21: fatfsjs_write_file returns to its caller whatever f_write does: no
\* writeFile leaves the module inside the call, also when f_write reports
\* FR_OK with fewer bytes than requested, or none, because the volume is
\* full.
C21_WriteFileReturns == fatLast.op = "writeFile" => ~fat.stuck

\* a writeFile of more bytes than the volume has room for: f_write has
\* filled the volume, reports FR_OK with 0 bytes from then on, and the
\* loop of fatfsjs_write_file has no way out
C21_Witness ==
    /\ fatLast.op = "writeFile"
    /\ fat.stuck
    /\ fat.g_is_mounted
    /\ fatLast.pre[2].len > 0
    /\ FatUsedClusters(FatMounted(fat).tree) = FatMounted(fat).clusters

\* a successful spiffsjs_read_file has copied as many bytes as it returns
SpReadCopiesWhole ==
    spiffs.g_is_mounted =>
       \A path \in SpNames, len \in {2, 3, 7} :
       \A r \in { spiffsjs_read_file(spiffs, path, 1, len) } :
          r.res >= 0 => \A i \in 1..r.res : r.buf[i] # Garbage

\* C22: a whole-file transfer that reports success has transferred the
\* whole file: when fatfsjs_write_file returns 0, f_write has taken all
\* length bytes and the file has that size, and when spiffsjs_read_file
\* returns the file size, that many bytes of the caller's buffer have
\* been written.
C22_SuccessMeansWhole ==
    /\ (fat7Last.op = "write_file" /\ fat7Last.res = 0) =>
          /\ fat7Last.written = fat7Last.length
          /\ fat7Last.size = fat7Last.length
    /\ SpReadCopiesWhole

\* fatfsjs_write_file has returned 0 for more bytes than the volume had
\* room for: the file is shorter than the data
C22_Witness ==
    /\ fat7Last.op = "write_file"
    /\ fat7Last.res = 0
    /\ fat7Last.written > 0
    /\ fat7Last.written < fat7Last.length
    /\ fat7Last.size = fat7Last.written
    /\ fat7.g_is_mounted

(***************************************************************************)
(* Properties of the flags of the SPIFFS binding                           *)
(***************************************************************************)

C23_AgreesElsewhere ==
    (spLast.op = "format" => spLast.res # SPIFFS_ERR_ERASE_FAIL)
        => spiffs.g_is_mounted = spiffs.g_fs.mounted

HalCopied ==
    /\ halLast.op \in {"spiffs_read", "spiffs_write", "spiffs_erase"}
    /\ halLast.res = SPIFFS_OK

\* C24: spiffsjs_hal_read, spiffsjs_hal_write and spiffsjs_hal_erase
\* touch no memory outside the backing store: for every 32-bit addr and
\* size a callback either returns an error, copies nothing and leaves
\* the backing store as it was, or addr + size as an unbounded integer is
\* at most g_total_bytes and every byte it copies lies in the backing
\* store; also when addr + size wraps modulo 2^32.
C24_HalStaysInside ==
    halLast.op \in {"spiffs_read", "spiffs_write", "spiffs_erase"} =>
       IF halLast.res # SPIFFS_OK
       THEN halLast.dst = <<>> /\ hal.g_storage = halLast.pre
       ELSE /\ halLast.high = 0
            /\ halLast.addr + halLast.size <= hal.g_total_bytes
            /\ halLast.outside = 0

\* a callback was given an address just below 2^32 with a size that
\* wraps the sum to at most g_total_bytes: it returned SPIFFS_OK and
\* touched a byte in front of the backing store
C24_Witness ==
    /\ HalCopied
    /\ halLast.high = U16 - 1
    /\ halLast.outside > 0
    /\ U32Add(<<halLast.high, halLast.addr>>, u32_t(halLast.size))[1] = 0

\* in range the callbacks do what they are to do: the bounds check
\* refuses what ends behind the backing store
C24_InRangeChecked ==
    (halLast.op \in {"spiffs_read", "spiffs_write", "spiffs_erase"}
        /\ halLast.high = 0) =>
       /\ halLast.outside = 0
       /\ halLast.res = SPIFFS_OK <=>
             (halLast.pre # <<>>
                 /\ halLast.addr + halLast.size <= Len(halLast.pre))

\* a step that is a call of spiffsjs_init or spiffsjs_init_from_image
\* which returned an error
SpInitFailed ==
    /\ spOps' = spOps + 1
    /\ spLast'.op \in {"init", "init_from_image"}
    /\ spLast'.res # 0

\* C27: after spiffsjs_init or spiffsjs_init_from_image returns an error
\* the module is either unchanged from before the call or fully released
\* (no storage, not mounted, all sizes zero); it is never left configured
\* but unmounted, and g_is_mounted implies that storage is allocated.
C27_FailedInitReleasesOrKeeps ==
    /\ [][SpInitFailed => (spiffs' = spiffs \/ spiffs' = SpReleased)]_vars
    /\ [](~(spiffs.g_disk_ready /\ ~spiffs.g_is_mounted))
    /\ [](spiffs.g_is_mounted => spiffs.g_storage # NullStorage)

\* an import of an image that does not mount under the geometry given
\* returned the error of SPIFFS_mount and left the module released
C27_Witness ==
    /\ spLast.op = "init_from_image"
    /\ spLast.res = SPIFFS_ERR_NOT_A_FS
    /\ spLast.pre.image_len = spLast.data[2] * spLast.data[3]
    /\ spiffs = SpReleased

\* an init with a geometry that spiffsjs_configure rejects returned its
\* error and the module is still mounted as before
C27_WitnessUnchanged ==
    /\ spLast.op = "init"
    /\ spLast.res = SPIFFS_ERR_NOT_CONFIGURED
    /\ spiffs.g_is_mounted
    /\ spiffs.g_storage # NullStorage

---------------------------------------------------------------------------
(* Properties of the relocation of pages *)

\* the data page that span of object id resolves to holds that span
SpanHeld(blocks, id, span) ==
    LET a == Resolve(blocks, id, span)
    IN /\ a # <<0, 0>>
       /\ PageAt(blocks, a).st = "used"
       /\ ~PageAt(blocks, a).ix
       /\ PageAt(blocks, a).id = id
       /\ PageAt(blocks, a).span = span

\* every span of every live object of ref that resolves to a page holding
\* its data does so in blocks, to the same data, and every name of ref is
\* found with the same size
ObjectsResolve(blocks, ref) ==
    /\ \A id \in LiveIds(ref) :
       \A span \in 0..(Cardinality(Addrs(ref)) - 1) :
          SpanHeld(ref, id, span) =>
             /\ SpanHeld(blocks, id, span)
             /\ PageAt(blocks, Resolve(blocks, id, span)).data
                   = PageAt(ref, Resolve(ref, id, span)).data
    /\ \A a \in { o \in LiveAddrs(ref) :
                  PageAt(ref, o).ix /\ PageAt(ref, o).span = 0 } :
          \E x \in Lookup(blocks, PageAt(ref, a).name) :
             /\ PageAt(blocks, x).id = PageAt(ref, a).id
             /\ PageAt(blocks, x).size = PageAt(ref, a).size

\* the storage after each write of the last garbage collection pass
SpGcStages == GcPassStages(spGc.vol, SPIFFS_GC_MAX_RUNS, {})

\* C26: relocation is copy-then-repoint: the old page is marked deleted
\* only after the copy is written and the index entry points at it, so
\* after every write of a garbage collection pass, also of one in which a
\* relocation fails part-way, each span of each live object resolves to
\* a page holding its complete data.
C26_RelocationKeepsSpansResolved ==
    spGc.n > 0 =>
       /\ \A i \in 1..Len(SpGcStages) :
             ObjectsResolve(SpGcStages[i], spGc.vol.blocks)
       /\ SpGcStages # <<>> =>
             SpGcStages[Len(SpGcStages)] = spiffs_gc(spGc.vol).blocks

\* a pass relocated the data page of an object and then found no free
\* page for the next live page of the block
C26_Witness ==
    /\ spGc.n > 0
    /\ \E i \in 1..(Len(SpGcStages) - 3) :
          /\ SpGcStages[i + 3] = SpGcStages[i + 2]
          /\ SpGcStages[i] # SpGcStages[i + 1]
          /\ SpGcStages[i + 1] # SpGcStages[i + 2]
    /\ \E id \in LiveIds(spGc.vol.blocks) :
          /\ SpanHeld(spGc.vol.blocks, id, 0)
          /\ Resolve(SpGcStages[Len(SpGcStages)], id, 0)
                # Resolve(spGc.vol.blocks, id, 0)

---------------------------------------------------------------------------
(* Properties of the read-only FAT reader *)

\* the file name of a path when the mount name is taken off only where it
\* is a whole leading segment, in upper case
RoSegmentName(path) ==
    [i \in 1..Len(fatfsjs_strip_mount(path)) |->
        toupper(fatfsjs_strip_mount(path)[i])]

\* what fatfsjs_file_size returns for the root file of a name
RoSizeUnder(m, name) ==
    LET Size(f) ==
            IF f.err # 0 THEN f.err
            ELSE IF f.out.is_dir THEN RO_ERR_NOT_A_FILE
            ELSE f.out.size
    IN Size(fatfsjs_find_entry(m, name))

\* what fatfsjs_read_file returns for the root file of a name
RoReadUnder(m, name, buffer_len) ==
    LET Copy(f) ==
            IF f.err # 0 THEN f.err
            ELSE IF f.out.is_dir THEN RO_ERR_NOT_A_FILE
            ELSE fatfsjs_copy_file(m, f.out, 1, buffer_len).res
    IN Copy(fatfsjs_find_entry(m, name))

\* a call of fatfsjs_file_size or fatfsjs_read_file on a mounted image
\* that got as far as the path, which names a file of the root
RoLookedUp ==
    /\ roLast.op \in {"file_size", "read_file"}
    /\ ro.g_is_mounted
    /\ roLast.path # RoNullPath
    /\ roLast.op = "read_file" => roLast.buffer_len > 0
    /\ RoSegmentName(roLast.path) # <<>>
    /\ \A i \in 1..Len(RoSegmentName(roLast.path)) :
          ~RoIsSeparator(RoSegmentName(roLast.path)[i])

\* C25: the reader takes the mount prefix "fatfs" off a path only when it
\* is a complete leading segment, followed by a separator or the end of
\* the string: fatfsjs_file_size and fatfsjs_read_file look a root file
\* whose name merely begins with those letters (FATFSLOG.TXT) up under
\* its full name.
C25_MountPrefixIsSegment ==
    RoLookedUp =>
       roLast.res =
          IF roLast.op = "file_size"
          THEN RoSizeUnder(ro, RoSegmentName(roLast.path))
          ELSE RoReadUnder(ro, RoSegmentName(roLast.path),
                           roLast.buffer_len)

\* fatfsjs_file_size of FATFSLOG.TXT returned the size of LOG.TXT, which
\* is not the size of the file FATFSLOG.TXT of the image
C25_Witness ==
    /\ RoLookedUp
    /\ roLast.op = "file_size"
    /\ RoSegmentName(roLast.path)
          = fatfsjs_parse_short_name(ro.g_storage.root[1])
    /\ roLast.res = ro.g_storage.root[2].size
    /\ ro.g_storage.root[1].size # roLast.res
    /\ ~RoAttrDir(ro.g_storage.root[1].attr)

\* paths in which nothing or a separator follows the mount name, and
\* paths that do not start with it, are looked up under their name
C25_SegmentsLookedUp ==
    (RoLookedUp
        /\ LET cursor == RoSkipSeparators(roLast.path)
           IN fatfsjs_starts_with_ci(cursor, RoMountName)
                 => (Len(cursor) = Len(RoMountName)
                        \/ RoIsSeparator(cursor[Len(RoMountName) + 1])))
       => roLast.res =
             IF roLast.op = "file_size"
             THEN RoSizeUnder(ro, RoSegmentName(roLast.path))
             ELSE RoReadUnder(ro, RoSegmentName(roLast.path),
                              roLast.buffer_len)

\* the chain of clusters from a cluster on returns to a cluster it has
\* been through: within n entries of the table it neither ends nor leaves
\* the data area, n the number of clusters
RECURSIVE RoChainRuns(_, _, _)
RoChainRuns(m, cluster, n) ==
    /\ cluster >= 2 /\ cluster < FATFSJS_FAT16_EOC
    /\ ~RoClusterOutside(m, cluster)
    /\ n > 0 => RoChainRuns(m, RoFatEntry(m, cluster), n - 1)

RoChainHasCycle(m, cluster) ==
    RoChainRuns(m, cluster, m.g_layout.cluster_count)

\* the first cluster of the walk of the last call
RoWalkStart ==
    IF roLast.op = "iterate_cluster_dir" THEN roLast.start
    ELSE LET n == fatfsjs_normalize_file_path(roLast.path, FATFSJS_MAX_NAME)
         IN IF n.err # 0 THEN 0
            ELSE fatfsjs_find_entry(ro, n.out).out.first_cluster

\* a call that walked a chain: a cluster directory was iterated or bytes
\* of a file were copied
RoWalked ==
    /\ ro.g_is_mounted
    /\ \/ roLast.op = "iterate_cluster_dir" /\ roLast.seen > 0
       \/ roLast.op = "read_file" /\ roLast.dest # <<>>

\* C28: walking a cluster chain terminates for any image content:
\* directory iteration and file copy follow at most cluster_count + 1
\* links, and a chain that contains a cycle ends in an IO error.
C28_ChainWalkEnds ==
    RoWalked =>
       /\ roLast.links <= ro.g_layout.cluster_count + 1
       /\ RoChainHasCycle(ro, RoWalkStart) => roLast.res = RO_ERR_IO

\* fatfsjs_read_file copied a file of two clusters whose first cluster
\* is its own successor in the table, and returned the size of the file
C28_Witness ==
    /\ RoWalked
    /\ roLast.op = "read_file"
    /\ RoChainHasCycle(ro, RoWalkStart)
    /\ RoFatEntry(ro, RoWalkStart) = RoWalkStart
    /\ roLast.links = 1
    /\ Len(roLast.dest) = 2
    /\ roLast.res > RoClusterSize(ro)

\* every walk follows at most cluster_count + 1 links, and a walk that
\* followed that many ends in an IO error
C28_WalkBounded ==
    RoWalked =>
       /\ roLast.links <= ro.g_layout.cluster_count + 1
       /\ roLast.links = ro.g_layout.cluster_count + 1
             => roLast.res = RO_ERR_IO

\* a walk followed cluster_count + 1 links around a cycle
C28_WitnessGuard ==
    /\ RoWalked
    /\ RoChainHasCycle(ro, RoWalkStart)
    /\ roLast.links = ro.g_layout.cluster_count + 1
    /\ roLast.res = RO_ERR_IO
=============================================================================
